---- MODULE Spec2Model ----
(***************************************************************************)
(* Model of the structured logging core of wharf-core (pkg/logger and      *)
(* internal/traceutil): the global registry of sinks and thresholds, the   *)
(* Logger severity methods, the Event builder with its pooled context      *)
(* slices, and the terminal Message/Messagef calls.                        *)
(***************************************************************************)
EXTENDS Integers, Sequences, FiniteSets, Bags, TLC

\* ------------------------------------------------------------------ bounds
\* SetLevel / SetLevelScoped / AddOutput / ClearOutputs calls in one run
MaxSetup == 3
\* Logger values created in one run
MaxLoggers == 1
\* severity calls (events created) in one run
MaxEvents == 1
\* the same three for the runs that follow the chains of With* calls
MaxChainSetup == 2
MaxChainEvents == 1
\* With* calls chained on one event
MaxWith == 2
\* the runs with setup calls between the calls of a chain: setup calls, events
MaxLateSetup == 4
MaxLateEvents == 1
\* the runs that continue two chains from one event: setup calls, Event values
MaxBranchSetup == 2
MaxBranchEvents == 2
\* the runs of concurrent goroutines: setup calls, goroutines, With* calls of each
MaxConcSetup == 2
MaxConcEvents == 2
MaxConcWith == 1
\* runs through every public way of making an event
MaxEntrySetup == 2
MaxEntryEvents == 2
\* the most library frames between the caller of CallerFileWithLineNum and
\* the frame the walk is meant to find
MaxLibFrames == 15
\* runs with the Mock as a sink
MaxMockSetup == 3
MaxMockEvents == 1
MaxMockWith == 2
\* runs with the Mock as a Logger
MaxOwnSetup == 2
MaxOwnEvents == 2
MaxOwnWith == 1
\* the highest Level value Level.String is called with
\* runs of the GORM logger: setup calls, calls of Trace
MaxGormSetup == 2
MaxGormEvents == 1
\* the largest CallerMaxLength of a pretty-console configuration
MaxCallerMaxLength == 6
MaxLevelByte == 12

\* ------------------------------------------------------------------ levels
LevelDebug == 0
LevelInfo == 1
LevelWarn == 2
LevelError == 3
LevelPanic == 4
\* the sentinel above Panic, used as a threshold only
LevelSilence == 5

\* the levels a threshold can be set to
Levels == LevelDebug..LevelSilence
\* the levels of the Logger severity methods Debug, Info, Warn, Error, Panic
EventLevels == {LevelDebug, LevelInfo, LevelWarn, LevelError, LevelPanic}

\* ------------------------------------------------------------------ strings
\* A string is a sequence of characters (or of longer tokens where no
\* operation looks inside them).
HasPrefix(s, p) == Len(p) <= Len(s) /\ SubSeq(s, 1, Len(p)) = p
HasSuffix(s, p) == Len(p) <= Len(s) /\ SubSeq(s, Len(s) - Len(p) + 1, Len(s)) = p

LowerLetters ==
    << "a", "b", "c", "d", "e", "f", "g", "h", "i", "j", "k", "l", "m", "n", "o", "p", "q", "r", "s", "t", "u", "v", "w", "x", "y", "z" >>
UpperLetters ==
    << "A", "B", "C", "D", "E", "F", "G", "H", "I", "J", "K", "L", "M", "N", "O", "P", "Q", "R", "S", "T", "U", "V", "W", "X", "Y", "Z" >>

\* the upper-case letter of an ASCII letter; every other character as it is
UpperChar(c) ==
    IF \E i \in 1..26 : LowerLetters[i] = c
    THEN UpperLetters[CHOOSE i \in 1..26 : LowerLetters[i] = c]
    ELSE c

\* strings.ToUpper
ToUpper(s) == [i \in 1..Len(s) |-> UpperChar(s[i])]

\* the lower-case letter of an ASCII letter; every other character as it is
LowerChar(c) ==
    IF \E i \in 1..26 : UpperLetters[i] = c
    THEN LowerLetters[CHOOSE i \in 1..26 : UpperLetters[i] = c]
    ELSE c

\* strings.ToLower
ToLower(s) == [i \in 1..Len(s) |-> LowerChar(s[i])]

\* unicode.IsSpace on the characters of the model
IsSpace(c) == c \in { " ", "\t", "\n", "\r" }

\* strings.TrimSpace
RECURSIVE TrimSpace(_)
TrimSpace(s) ==
    IF s = << >> THEN s
    ELSE IF IsSpace(s[1]) THEN TrimSpace(Tail(s))
    ELSE IF IsSpace(s[Len(s)]) THEN TrimSpace(SubSeq(s, 1, Len(s) - 1))
    ELSE s

\* scope names given to NewScoped and SetLevelScoped; <<>> is the empty scope
ScopeNames == { <<>>, <<"d", "b">>, <<"D", "B">>, <<"g">> }

\* ------------------------------------------------------------------ state
VARIABLES
    minGlobalLevel,          \* logger.go: minGlobalLevel
    minScopedLevels,         \* logger.go: minScopedLevels, keyed by upper-cased scope
    registeredSinks,         \* logger.go: registeredSinks, in order of AddOutput
    LongestScopeNameLength,  \* logger.go: LongestScopeNameLength
    loggers,                 \* the scopes of the Logger values created so far
    heap,                    \* backing arrays of the []Context slices
    pool,                    \* contextPool: the arrays in the pool, a bag (Put may repeat one)
    mock,                    \* the Mock sink: its Logs and LogMessages, and the
                             \* Fields maps of its contexts, by context
    events,                  \* the Event values handed to the caller
    trace,                   \* calls received by the sinks, and panics raised
    nString,                 \* number of String() calls on fmt.Stringer arguments
    nSprintf,                \* number of fmt.Sprintf calls
    nSetup,                  \* number of setup calls made so far
    limits,                  \* the bounds of the run
    lastCall,                \* the last call of a function with no state: its
                             \* name, its arguments and what it returned
    lastSet                  \* history: the last arguments of SetLevel / SetLevelScoped,
                             \* the AddOutput calls and the longest NewScoped name
                             \* since the last ClearOutputs

vars == << minGlobalLevel, minScopedLevels, registeredSinks, LongestScopeNameLength,
           loggers, heap, pool, mock, events, trace, nString, nSprintf, nSetup, limits,
           lastCall, lastSet >>

registry == << minGlobalLevel, minScopedLevels, registeredSinks, LongestScopeNameLength >>

\* the sinks of the program
\* ---- level.go
DecimalDigits == << "0", "1", "2", "3", "4", "5", "6", "7", "8", "9" >>

\* fmt's %d of a byte
RECURSIVE Decimal(_)
Decimal(n) ==
    IF n < 10 THEN << DecimalDigits[n + 1] >>
    ELSE Decimal(n \div 10) \o << DecimalDigits[(n % 10) + 1] >>

\* Level.String
LevelString(lvl) ==
    CASE lvl = LevelDebug -> << "D", "e", "b", "u", "g", "g", "i", "n", "g" >>
      [] lvl = LevelInfo -> << "I", "n", "f", "o", "r", "m", "a", "t", "i", "o", "n" >>
      [] lvl = LevelWarn -> << "W", "a", "r", "n", "i", "n", "g" >>
      [] lvl = LevelError -> << "E", "r", "r", "o", "r" >>
      [] lvl = LevelPanic -> << "P", "a", "n", "i", "c" >>
      [] OTHER -> << "L", "e", "v", "e", "l", "(" >> \o Decimal(lvl) \o << ")" >>

\* ParseLevel that compares the text as it is given
ParseLevelAsGiven(lvl) ==
    LET s == lvl
    IN  CASE s \in { << "d" >>, << "d", "e", "b", "u", "g" >>, << "d", "e", "b", "u", "g", "g", "i", "n", "g" >> } ->
                 [level |-> LevelDebug, err |-> FALSE]
          [] s \in { << "i" >>, << "i", "n", "f", "o" >>, << "i", "n", "f", "o", "r", "m", "a", "t", "i", "o", "n" >> } ->
                 [level |-> LevelInfo, err |-> FALSE]
          [] s \in { << "w" >>, << "w", "a", "r", "n" >>, << "w", "a", "r", "n", "i", "n", "g" >> } ->
                 [level |-> LevelWarn, err |-> FALSE]
          [] s \in { << "e" >>, << "e", "r", "r", "o", "r" >> } ->
                 [level |-> LevelError, err |-> FALSE]
          [] s \in { << "p" >>, << "p", "a", "n", "i", "c" >> } ->
                 [level |-> LevelPanic, err |-> FALSE]
          [] OTHER -> [level |-> LevelDebug, err |-> TRUE]

\* ParseLevel that lowers the case but keeps the white space around the text
ParseLevelUntrimmed(lvl) == ParseLevelAsGiven(ToLower(lvl))

\* ParseLevel: the level and whether the error is not nil
ParseLevel(lvl) ==
    LET s == TrimSpace(ToLower(lvl))
    IN  CASE s \in { << "d" >>, << "d", "e", "b", "u", "g" >>, << "d", "e", "b", "u", "g", "g", "i", "n", "g" >> } ->
                 [level |-> LevelDebug, err |-> FALSE]
          [] s \in { << "i" >>, << "i", "n", "f", "o" >>, << "i", "n", "f", "o", "r", "m", "a", "t", "i", "o", "n" >> } ->
                 [level |-> LevelInfo, err |-> FALSE]
          [] s \in { << "w" >>, << "w", "a", "r", "n" >>, << "w", "a", "r", "n", "i", "n", "g" >> } ->
                 [level |-> LevelWarn, err |-> FALSE]
          [] s \in { << "e" >>, << "e", "r", "r", "o", "r" >> } ->
                 [level |-> LevelError, err |-> FALSE]
          [] s \in { << "p" >>, << "p", "a", "n", "i", "c" >> } ->
                 [level |-> LevelPanic, err |-> FALSE]
          [] OTHER -> [level |-> LevelDebug, err |-> TRUE]

SinkIds == {"s1", "s2"}

NoLevel == 0 - 1

\* case-insensitive equality of two scope names (history bookkeeping only)
EqualFold(s, t) ==
    /\ Len(s) = Len(t)
    /\ \A i \in 1..Len(s) : UpperChar(s[i]) = UpperChar(t[i])

\* ------------------------------------------------------------------ registry
\* SetLevel: the global minimum level
SetLevel(level) == minGlobalLevel' = level

\* SetLevelScoped that keys the override by the scope name as given
SetLevelScopedExactName(level, scope) ==
    minScopedLevels' =
        [k \in DOMAIN minScopedLevels \cup {scope} |->
            IF k = scope THEN level ELSE minScopedLevels[k]]

\* SetLevelScoped that makes a new map with the one override
SetLevelScopedAlone(level, scope) ==
    minScopedLevels' = [k \in {ToUpper(scope)} |-> level]

\* SetLevelScoped: minScopedLevels[strings.ToUpper(scope)] = level
SetLevelScoped(level, scope) ==
    minScopedLevels' =
        [k \in DOMAIN minScopedLevels \cup {ToUpper(scope)} |->
            IF k = ToUpper(scope) THEN level ELSE minScopedLevels[k]]

\* getLevelScoped with the override of any scope applied to every scope
getLevelScopedAnyScope(scope) ==
    IF \E k \in DOMAIN minScopedLevels : minScopedLevels[k] > minGlobalLevel
    THEN minScopedLevels[CHOOSE k \in DOMAIN minScopedLevels :
                            \A j \in DOMAIN minScopedLevels :
                                minScopedLevels[j] <= minScopedLevels[k]]
    ELSE minGlobalLevel

\* getLevelScoped with the override taken even when it is below the global minimum
getLevelScopedOverrideWins(scope) ==
    IF ToUpper(scope) \in DOMAIN minScopedLevels
    THEN minScopedLevels[ToUpper(scope)]
    ELSE minGlobalLevel

\* getLevelScoped: the override when there is one above the global minimum
getLevelScoped(scope) ==
    IF /\ ToUpper(scope) \in DOMAIN minScopedLevels
       /\ minScopedLevels[ToUpper(scope)] > minGlobalLevel
    THEN minScopedLevels[ToUpper(scope)]
    ELSE minGlobalLevel

\* ClearOutputs that resets the scope-name length and leaves the sinks
ClearOutputsKeepsSinks ==
    /\ UNCHANGED registeredSinks
    /\ LongestScopeNameLength' = 0

\* ClearOutputs that empties the registry and leaves the scope-name length
ClearOutputsSinksOnly ==
    /\ registeredSinks' = << >>
    /\ UNCHANGED LongestScopeNameLength

\* ClearOutputs
ClearOutputs ==
    /\ registeredSinks' = << >>
    /\ LongestScopeNameLength' = 0

\* AddOutput that puts the new sink in front of the registry
AddOutputInFront(minLevel, sink) ==
    registeredSinks' = << [sink |-> sink, minLevel |-> minLevel] >> \o registeredSinks

\* AddOutput: append to the registry
AddOutput(minLevel, sink) ==
    registeredSinks' = Append(registeredSinks, [sink |-> sink, minLevel |-> minLevel])

\* New: a Logger without a scope
New ==
    /\ loggers' = loggers \cup { << >> }
    /\ UNCHANGED LongestScopeNameLength

\* NewScoped: a Logger bound to scope; records the longest scope name
NewScoped(scope) ==
    /\ LongestScopeNameLength' =
         IF Len(scope) > LongestScopeNameLength THEN Len(scope) ELSE LongestScopeNameLength
    /\ loggers' = loggers \cup {scope}

\* ---- the calls, as steps of the program
\* a setup call counts against the setup calls of the run; the setup calls come
\* before the first severity call, or, in a run with late setup, all after the
\* Logger was created, also between the calls of a chain
Setup ==
    /\ IF limits.late THEN loggers # {} ELSE events = << >>
    /\ nSetup < limits.setup
    /\ nSetup' = nSetup + 1
    /\ UNCHANGED << limits, mock, lastCall >>

SetLevelCall(level) ==
    /\ Setup
    /\ SetLevel(level)
    /\ lastSet' = [lastSet EXCEPT !.level = level]
    /\ UNCHANGED << minScopedLevels, registeredSinks, LongestScopeNameLength, loggers,
                    heap, pool, events, trace, nString, nSprintf >>

SetLevelScopedCall(level, scope) ==
    /\ Setup
    /\ SetLevelScoped(level, scope)
    /\ lastSet' = [lastSet EXCEPT !.scoped =
                     [t \in ScopeNames |-> IF EqualFold(t, scope) THEN level ELSE @[t]]]
    /\ UNCHANGED << minGlobalLevel, registeredSinks, LongestScopeNameLength, loggers,
                    heap, pool, events, trace, nString, nSprintf >>

\* the lowest minimum level among registrations, NoLevel when there is none
LowestMinLevel(regs) ==
    IF regs = << >> THEN NoLevel
    ELSE CHOOSE l \in Levels :
             /\ \E i \in 1..Len(regs) : regs[i].minLevel = l
             /\ \A i \in 1..Len(regs) : regs[i].minLevel >= l

ClearOutputsCall ==
    /\ Setup
    /\ ClearOutputs
    /\ lastSet' = [lastSet EXCEPT !.added = << >>, !.removedMin = LowestMinLevel(lastSet.added),
                                  !.scopedLen = 0]
    /\ UNCHANGED << minGlobalLevel, minScopedLevels, loggers,
                    heap, pool, events, trace, nString, nSprintf >>

AddOutputCall(minLevel, sink) ==
    /\ Setup
    /\ AddOutput(minLevel, sink)
    /\ lastSet' = [lastSet EXCEPT !.added = Append(@, [sink |-> sink, minLevel |-> minLevel])]
    /\ UNCHANGED << minGlobalLevel, minScopedLevels, LongestScopeNameLength, loggers,
                    heap, pool, events, trace, nString, nSprintf >>

NewCall ==
    /\ Cardinality(loggers \cup { << >> }) <= limits.loggers
    /\ UNCHANGED << nSetup, limits, mock, lastCall >>
    /\ << >> \notin loggers
    /\ New
    /\ UNCHANGED << minGlobalLevel, minScopedLevels, registeredSinks,
                    heap, pool, events, trace, nString, nSprintf, lastSet >>

NewScopedCall(scope) ==
    /\ Cardinality(loggers \cup {scope}) <= limits.loggers
    /\ UNCHANGED << nSetup, limits, mock, lastCall >>
    /\ scope \notin loggers \/ Len(scope) > LongestScopeNameLength
    /\ NewScoped(scope)
    /\ lastSet' = [lastSet EXCEPT !.scopedLen = IF Len(scope) > @ THEN Len(scope) ELSE @]
    /\ UNCHANGED << minGlobalLevel, minScopedLevels, registeredSinks,
                    heap, pool, events, trace, nString, nSprintf >>

\* ------------------------------------------------------------------ traceutil
\* A source path is a sequence of tokens; "/" is a token of its own.
\* wharfCoreDir: the directory of this library, "/w"
wharfCoreDir == << "/", "w" >>

Frame(path, line) == [path |-> path, line |-> line]

PathTraceutil == << "/", "w", "/", "internal", "/", "traceutil", "/", "traceutil", ".go" >>
PathEvent == << "/", "w", "/", "pkg", "/", "logger", "/", "event", ".go" >>
PathLogger == << "/", "w", "/", "pkg", "/", "logger", "/", "logger", ".go" >>
PathApp == << "/", "app", "/", "cmd", "/", "run", ".go" >>
PathRuntime == << "/", "go", "/", "runtime", "/", "proc", ".go" >>

\* the frames of the library above a severity call, innermost first
LibFrames ==
    << Frame(PathTraceutil, 37), Frame(PathEvent, 321), Frame(PathEvent, 305),
       Frame(PathLogger, 119), Frame(PathLogger, 142) >>

\* a severity call made from application code
FramesApp == LibFrames \o << Frame(PathApp, 42), Frame(PathRuntime, 250) >>
\* a severity call reached through more library frames than the walk looks at
FramesDeep == LibFrames \o [i \in 1..12 |-> Frame(PathLogger, 165)]
                       \o << Frame(PathApp, 42), Frame(PathRuntime, 250) >>

startDepth == 2
maxDepth == 15

\* runtime.Caller(i) on the given stack
RuntimeCaller(stack, i) ==
    IF i + 1 <= Len(stack)
    THEN [ok |-> TRUE, path |-> stack[i + 1].path, line |-> stack[i + 1].line]
    ELSE [ok |-> FALSE, path |-> << >>, line |-> 0]

isValidCallerFile(path) ==
    \/ HasSuffix(path, << "_test.go" >>)
    \/ ~HasPrefix(path, wharfCoreDir)
    \/ HasSuffix(path, << "/", "main.go" >>)

\* index of the last "/" at or before position n of path, 0 when there is none
RECURSIVE LastSlash(_, _)
LastSlash(path, n) ==
    IF n = 0 THEN 0
    ELSE IF path[n] = "/" THEN n
    ELSE LastSlash(path, n - 1)

\* fileAndLastDir: the file name with its direct parent directory
fileAndLastDir(path) ==
    LET cut == LastSlash(path, Len(path))
        file == SubSeq(path, cut + 1, Len(path))
        prev == LastSlash(path, cut - 1)
    IN  IF cut = 0 THEN << "???", "/" >> \o file
        ELSE IF cut = 1 THEN << "/" >> \o file
        ELSE SubSeq(path, prev + 1, cut - 1) \o << "/" >> \o file

RECURSIVE CallerFrom(_, _)
CallerFrom(stack, i) ==
    IF i > maxDepth THEN [file |-> << >>, line |-> 0]
    ELSE LET c == RuntimeCaller(stack, i)
         IN  IF c.ok /\ isValidCallerFile(c.path)
             THEN [file |-> fileAndLastDir(c.path), line |-> c.line]
             ELSE CallerFrom(stack, i + 1)

\* CallerFileWithLineNum: the first qualifying frame from startDepth to maxDepth
CallerFileWithLineNum(stack) == CallerFrom(stack, startDepth)

\* the stacks severity calls are made from, by name
Stacks == {"app", "deep"}
StackFrames(name) == IF name = "app" THEN FramesApp ELSE FramesDeep

\* ------------------------------------------------------------------ contexts
\* A Context is the value a sink hands out: it carries the Set.../Append...
\* calls made on it, in order.  Every method returns the context to go on with.
NilCtx == [id |-> << 0, 0 >>, sink |-> "", scope |-> << >>, ops |-> << >>]

\* Sink.NewContext(scope)
NewContext(sink, scope, id) == [id |-> id, sink |-> sink, scope |-> scope, ops |-> << >>]

SetCallerOp(file, line) == [f |-> "SetCaller", k |-> file, v |-> << line >>]
SetErrorOp(err) == [f |-> "SetError", k |-> << >>, v |-> err]
AppendStringOp(key, value) == [f |-> "AppendString", k |-> key, v |-> value]
AppendIntOp(key, value) == [f |-> "AppendInt", k |-> key, v |-> << value >>]
AppendRuneOp(key, value) == [f |-> "AppendRune", k |-> key, v |-> << value >>]
AppendInt64Op(key, value) == [f |-> "AppendInt64", k |-> key, v |-> << value >>]
AppendDurationOp(key, value) == [f |-> "AppendDuration", k |-> key, v |-> << value >>]

\* Context.SetCaller / SetError / Append...: the context with the call added
ContextApply(ctx, op) == [ctx EXCEPT !.ops = Append(@, op)]

\* the caller a Context carries: SetCaller overwrites the file and the line, so
\* it is the one of the last SetCaller call; an empty file when there was none
CallerOf(ctx) ==
    LET set == { i \in 1..Len(ctx.ops) : ctx.ops[i].f = "SetCaller" }
    IN  IF set = {} THEN [file |-> << >>, line |-> 0]
        ELSE LET last == CHOOSE i \in set : \A j \in set : j <= i
             IN  [file |-> ctx.ops[last].k, line |-> ctx.ops[last].v[1]]

\* ---- entries of the trace
TraceNewContext(eid, ctx) ==
    [op |-> "NewContext", ev |-> eid, sink |-> ctx.sink, ctx |-> ctx,
     level |-> NoLevel, msg |-> << >>]
TraceWriteOut(eid, ctx, level, message) ==
    [op |-> "WriteOut", ev |-> eid, sink |-> ctx.sink, ctx |-> ctx,
     level |-> level, msg |-> message]
TracePanic(eid, message) ==
    [op |-> "panic", ev |-> eid, sink |-> "", ctx |-> NilCtx,
     level |-> NoLevel, msg |-> message]

\* ------------------------------------------------------------------ fmt
\* values with a String() method, and what it returns
Stringers == {"A"}
StringOf(x) == IF x = "A" THEN "a" ELSE "?"

\* fmt.Sprintf: every %v verb takes the next argument and calls its String()
RECURSIVE SprintfFrom(_, _, _)
SprintfFrom(format, args, i) ==
    IF i > Len(format) THEN [text |-> << >>, strings |-> 0]
    ELSE IF format[i] = "%v" /\ args # << >>
         THEN LET rest == SprintfFrom(format, Tail(args), i + 1)
              IN  [text |-> << StringOf(Head(args)) >> \o rest.text,
                   strings |-> rest.strings + 1]
    ELSE IF format[i] = "%v"
         THEN LET rest == SprintfFrom(format, args, i + 1)
              IN  [text |-> << "%!v(MISSING)" >> \o rest.text, strings |-> rest.strings]
    ELSE LET rest == SprintfFrom(format, args, i + 1)
         IN  [text |-> << format[i] >> \o rest.text, strings |-> rest.strings]

Sprintf(format, args) == SprintfFrom(format, args, 1)

\* ------------------------------------------------------------------ slices
\* A []Context is a backing array of the heap and a length; array 0 is nil.
NilSlice == [arr |-> 0, len |-> 0]

\* capacity of the array a growing append moves to
GrowCap(cap) == IF cap = 0 THEN 1 ELSE 2 * cap

\* ctxs = append(ctxs, c): in place while the capacity lasts, else a new array
SliceAppend(h, sl, c) ==
    IF sl.len < Len(h[sl.arr])
    THEN [heap |-> [h EXCEPT ![sl.arr][sl.len + 1] = c],
          sl |-> [arr |-> sl.arr, len |-> sl.len + 1]]
    ELSE [heap |-> Append(h, [i \in 1..GrowCap(Len(h[sl.arr])) |->
                                 IF i <= sl.len THEN h[sl.arr][i]
                                 ELSE IF i = sl.len + 1 THEN c
                                 ELSE NilCtx]),
          sl |-> [arr |-> Len(h) + 1, len |-> sl.len + 1]]

\* the contexts an event holds
CtxsOf(h, sl) == IF sl.arr = 0 THEN << >> ELSE SubSeq(h[sl.arr], 1, sl.len)

\* contextPool.Get: an array of the pool (got), or a new []Context{} (got = 0)
PoolGet(h, got) ==
    IF got = 0 THEN [heap |-> Append(h, << >>), arr |-> Len(h) + 1]
    ELSE [heap |-> h, arr |-> got]

\* ------------------------------------------------------------------ events
\* An Event value is (level, ctxs, done); done is "nil" or "panicString".

\* the loop of newEventFromSinks: a context of every sink that admits the level
RECURSIVE CollectContexts(_, _, _, _, _, _, _, _)
CollectContexts(h, sl, tr, sinks, i, level, scope, eid) ==
    IF i > Len(sinks) THEN [heap |-> h, sl |-> sl, trace |-> tr]
    ELSE IF level < sinks[i].minLevel
         THEN CollectContexts(h, sl, tr, sinks, i + 1, level, scope, eid)
    ELSE LET c == NewContext(sinks[i].sink, scope, << eid, sl.len + 1 >>)
             a == SliceAppend(h, sl, c)
         IN  CollectContexts(a.heap, a.sl, Append(tr, TraceNewContext(eid, c)),
                             sinks, i + 1, level, scope, eid)

\* withKeyedFunc with the returned context dropped instead of stored
withKeyedFuncDropped(h, ev, op) == h

\* withKeyedFunc that stops after the first held context
withKeyedFuncFirstOnly(h, ev, op) ==
    IF ev.ctxs.arr = 0 \/ ev.ctxs.len = 0 THEN h
    ELSE [h EXCEPT ![ev.ctxs.arr][1] = ContextApply(@, op)]

\* withKeyedFunc: ev.ctxs[i] = f(ctx, key, value) for every held context
withKeyedFunc(h, ev, op) ==
    IF ev.ctxs.arr = 0 THEN h
    ELSE [h EXCEPT ![ev.ctxs.arr] =
            [i \in 1..Len(h[ev.ctxs.arr]) |->
                IF i <= ev.ctxs.len THEN ContextApply(h[ev.ctxs.arr][i], op)
                ELSE h[ev.ctxs.arr][i]]]

\* withFunc: ev.ctxs[i] = f(ctx, value) for every held context
withFunc(h, ev, op) ==
    IF ev.ctxs.arr = 0 THEN h
    ELSE [h EXCEPT ![ev.ctxs.arr] =
            [i \in 1..Len(h[ev.ctxs.arr]) |->
                IF i <= ev.ctxs.len THEN ContextApply(h[ev.ctxs.arr][i], op)
                ELSE h[ev.ctxs.arr][i]]]

WithCaller(h, ev, file, line) == withKeyedFunc(h, ev, SetCallerOp(file, line))
WithString(h, ev, key, value) == withKeyedFunc(h, ev, AppendStringOp(key, value))
WithInt(h, ev, key, value) == withKeyedFunc(h, ev, AppendIntOp(key, value))
WithError(h, ev, value) == withFunc(h, ev, SetErrorOp(value))

\* WithStringf: formats only when the event holds a context
\* st is (heap, nSprintf, nString)
WithStringf(st, ev, key, format, args) ==
    IF ev.ctxs.len > 0
    THEN [heap |-> WithString(st.heap, ev, key, Sprintf(format, args).text),
          nSprintf |-> st.nSprintf + 1,
          nString |-> st.nString + Sprintf(format, args).strings]
    ELSE st

\* WithStringer without the check for held contexts
WithStringerEager(st, ev, key, value) ==
    [heap |-> WithString(st.heap, ev, key, << StringOf(value) >>),
     nSprintf |-> st.nSprintf,
     nString |-> st.nString + 1]

\* WithStringer: calls String() only when the event holds a context
WithStringer(st, ev, key, value) ==
    IF ev.ctxs.len > 0
    THEN [heap |-> WithString(st.heap, ev, key, << StringOf(value) >>),
          nSprintf |-> st.nSprintf,
          nString |-> st.nString + 1]
    ELSE st

\* newEventFromSinks without the check against the threshold of the scope
newEventFromSinksNoThreshold(level, scope, done, sinks, stack, got, eid) ==
    LET g == PoolGet(heap, got)
        c == CollectContexts(g.heap, [arr |-> g.arr, len |-> 0], trace,
                             sinks, 1, level, scope, eid)
    IN  [ev |-> [level |-> level, ctxs |-> c.sl, done |-> done],
         heap |-> c.heap, pool |-> IF got = 0 THEN pool ELSE pool (-) SetToBag({got}), trace |-> c.trace]

\* newEventFromSinks that returns the event without attaching the caller
newEventFromSinksNoCaller(level, scope, done, sinks, stack, got, eid) ==
    IF level < getLevelScoped(scope)
    THEN [ev |-> [level |-> 0, ctxs |-> NilSlice, done |-> "nil"],
          heap |-> heap, pool |-> pool, trace |-> trace]
    ELSE LET g == PoolGet(heap, got)
             c == CollectContexts(g.heap, [arr |-> g.arr, len |-> 0], trace,
                                  sinks, 1, level, scope, eid)
         IN  [ev |-> [level |-> level, ctxs |-> c.sl, done |-> done],
              heap |-> c.heap,
              pool |-> IF got = 0 THEN pool ELSE pool (-) SetToBag({got}),
              trace |-> c.trace]

\* newEventFromSinks with the slice it took left in the pool
newEventFromSinksKeepsPooled(level, scope, done, sinks, stack, got, eid) ==
    IF level < getLevelScoped(scope)
    THEN [ev |-> [level |-> 0, ctxs |-> NilSlice, done |-> "nil"],
          heap |-> heap, pool |-> pool, trace |-> trace]
    ELSE LET g == PoolGet(heap, got)
             c == CollectContexts(g.heap, [arr |-> g.arr, len |-> 0], trace,
                                  sinks, 1, level, scope, eid)
             ev == [level |-> level, ctxs |-> c.sl, done |-> done]
             caller == CallerFileWithLineNum(StackFrames(stack))
         IN  [ev |-> ev,
              heap |-> IF caller.file # << >>
                       THEN WithCaller(c.heap, ev, caller.file, caller.line)
                       ELSE c.heap,
              pool |-> pool,
              trace |-> c.trace]

\* newEventFromSinks; got is the array contextPool.Get hands out (0: a new one)
newEventFromSinks(level, scope, done, sinks, stack, got, eid) ==
    IF level < getLevelScoped(scope)
    THEN [ev |-> [level |-> 0, ctxs |-> NilSlice, done |-> "nil"],
          heap |-> heap, pool |-> pool, trace |-> trace]
    ELSE LET g == PoolGet(heap, got)
             c == CollectContexts(g.heap, [arr |-> g.arr, len |-> 0], trace,
                                  sinks, 1, level, scope, eid)
             ev == [level |-> level, ctxs |-> c.sl, done |-> done]
             caller == CallerFileWithLineNum(StackFrames(stack))
         IN  [ev |-> ev,
              heap |-> IF caller.file # << >>
                       THEN WithCaller(c.heap, ev, caller.file, caller.line)
                       ELSE c.heap,
              pool |-> IF got = 0 THEN pool ELSE pool (-) SetToBag({got}),
              trace |-> c.trace]

\* NewEvent with the sinks' registered minimum levels ignored
NewEventEverySink(level, scope, done, stack, got, eid) ==
    newEventFromSinks(level, scope, done,
                      [i \in 1..Len(registeredSinks) |->
                          [registeredSinks[i] EXCEPT !.minLevel = LevelDebug]],
                      stack, got, eid)

\* NewEvent: an event over the globally registered sinks
NewEvent(level, scope, done, stack, got, eid) ==
    newEventFromSinks(level, scope, done, registeredSinks, stack, got, eid)

\* logger.Debug / Info / Warn / Error / Panic: only Panic passes panicString
loggerSeverity(scope, level, stack, got, eid) ==
    NewEvent(level, scope, IF level = LevelPanic THEN "panicString" ELSE "nil",
             stack, got, eid)

\* returnPooledSlice: a non-nil slice goes back to the pool
returnPooledSlice(p, ev) ==
    IF ev.ctxs.arr # 0 THEN p (+) SetToBag({ev.ctxs.arr}) ELSE p

\* panicString: panic(message)
panicString(tr, eid, message) == Append(tr, TracePanic(eid, message))

\* Message with done invoked before the contexts are written out
MessageDoneFirst(st, ev, eid, message) ==
    LET cs == CtxsOf(heap, ev.ctxs)
        start == IF ev.done # "nil" THEN panicString(st.trace, eid, message)
                 ELSE st.trace
    IN  [st EXCEPT !.pool = returnPooledSlice(st.pool, ev),
                   !.trace = start \o [i \in 1..Len(cs) |->
                                          TraceWriteOut(eid, cs[i], ev.level, message)]]

\* Message that writes out only the contexts of sinks registered at this moment
MessageToCurrentSinks(st, ev, eid, message) ==
    LET cs == SelectSeq(CtxsOf(heap, ev.ctxs),
                        LAMBDA c : \E i \in 1..Len(registeredSinks) :
                                       registeredSinks[i].sink = c.sink)
        written == st.trace \o [i \in 1..Len(cs) |->
                                   TraceWriteOut(eid, cs[i], ev.level, message)]
    IN  [st EXCEPT !.pool = returnPooledSlice(st.pool, ev),
                   !.trace = IF ev.done # "nil"
                             THEN panicString(written, eid, message)
                             ELSE written]

\* Message on the contexts as heap h holds them: WriteOut on every context, the
\* slice back to the pool, then done; st is (pool, trace, nSprintf, nString)
MessageOn(h, st, ev, eid, message) ==
    LET cs == CtxsOf(h, ev.ctxs)
        written == st.trace \o [i \in 1..Len(cs) |->
                                   TraceWriteOut(eid, cs[i], ev.level, message)]
    IN  [st EXCEPT !.pool = returnPooledSlice(st.pool, ev),
                   !.trace = IF ev.done # "nil"
                             THEN panicString(written, eid, message)
                             ELSE written]

\* Message
Message(st, ev, eid, message) == MessageOn(heap, st, ev, eid, message)

\* Messagef that formats before looking at the event
MessagefEager(st, ev, eid, format, args) ==
    Message([st EXCEPT !.nSprintf = @ + 1,
                       !.nString = @ + Sprintf(format, args).strings],
            ev, eid, Sprintf(format, args).text)

\* Messagef
Messagef(st, ev, eid, format, args) ==
    IF ev.ctxs.len > 0
    THEN Message([st EXCEPT !.nSprintf = @ + 1,
                            !.nString = @ + Sprintf(format, args).strings],
                 ev, eid, Sprintf(format, args).text)
    ELSE IF ev.done # "nil"
         THEN [st EXCEPT !.pool = returnPooledSlice(st.pool, ev),
                         !.trace = panicString(st.trace, eid, Sprintf(format, args).text),
                         !.nSprintf = @ + 1,
                         !.nString = @ + Sprintf(format, args).strings]
    ELSE [st EXCEPT !.pool = returnPooledSlice(st.pool, ev)]

\* NewEventFromLogger: the severity method of the level; any other level
\* panics with "invalid log level" and no event is made
NewEventFromLogger(scope, level, stack, got, eid) ==
    IF level \in EventLevels
    THEN [invalid |-> FALSE, r |-> loggerSeverity(scope, level, stack, got, eid)]
    ELSE [invalid |-> TRUE,
          r |-> [ev |-> [level |-> 0, ctxs |-> NilSlice, done |-> "nil"],
                 heap |-> heap, pool |-> pool,
                 trace |-> Append(trace, TracePanic(eid, << "invalid log level" >>))]]

\* strings.TrimRight(s, "\n")
RECURSIVE TrimRight(_)
TrimRight(s) ==
    IF s # << >> /\ s[Len(s)] = "\n" THEN TrimRight(SubSeq(s, 1, Len(s) - 1)) ELSE s

\* loggerWriter.Write that passes the text on as it is
loggerWriterWriteUntrimmed(scope, level, p, stack, got, eid) ==
    LET n == NewEventFromLogger(scope, level, stack, got, eid)
    IN  IF n.invalid THEN n
        ELSE LET w == MessageOn(n.r.heap,
                                [pool |-> n.r.pool, trace |-> n.r.trace,
                                 nSprintf |-> nSprintf, nString |-> nString],
                                n.r.ev, eid, p)
             IN  [invalid |-> FALSE,
                  r |-> [ev |-> n.r.ev, heap |-> n.r.heap,
                         pool |-> w.pool, trace |-> w.trace]]

\* loggerWriter.Write: the trimmed text as the Message of an event of the
\* writer's level
loggerWriterWrite(scope, level, p, stack, got, eid) ==
    LET n == NewEventFromLogger(scope, level, stack, got, eid)
    IN  IF n.invalid THEN n
        ELSE LET w == MessageOn(n.r.heap,
                                [pool |-> n.r.pool, trace |-> n.r.trace,
                                 nSprintf |-> nSprintf, nString |-> nString],
                                n.r.ev, eid, TrimRight(p))
             IN  [invalid |-> FALSE,
                  r |-> [ev |-> n.r.ev, heap |-> n.r.heap,
                         pool |-> w.pool, trace |-> w.trace]]

\* what the caller of Write gets: (len(p), nil), unless NewEventFromLogger or
\* the done function of the event panicked
loggerWriterReturn(n, p) ==
    IF n.invalid \/ n.r.ev.done # "nil"
    THEN [panic |-> TRUE, n |-> 0, err |-> ""]
    ELSE [panic |-> FALSE, n |-> Len(p), err |-> "nil"]

\* ------------------------------------------------------------------ mock.go
\* the one Mock of a run, as a sink
MockSink == "mock"

\* the MockLog a WriteOut appends: the context with Level and Message set; its
\* Fields is the map of the context, mock.maps[ctx.id]
MockLogOf(ctx, level, message) == [Level |-> level, Message |-> message, ctx |-> ctx]

\* make(map[string]any)
EmptyFields == [k \in {} |-> << >>]

\* addField that keeps the value a key already has
addFieldKeepFirst(fields, key, value) ==
    [k \in DOMAIN fields \cup {key} |-> IF k \in DOMAIN fields THEN fields[k] ELSE value]

\* mockCtx.addField: c.Fields[key] = value
addField(fields, key, value) ==
    [k \in DOMAIN fields \cup {key} |-> IF k = key THEN value ELSE fields[k]]

\* Mock.NewContext: the map of a new context, with the scope unless it is empty
MockNewFields(scope) ==
    IF scope # << >> THEN addField(EmptyFields, "scope", scope) ELSE EmptyFields

\* what a call on a mockCtx does to its map
mockCtxApply(fields, op) ==
    CASE op.f = "SetCaller" -> addField(addField(fields, "caller", op.k), "line", op.v)
      [] op.f = "SetError" -> addField(fields, "error", op.v)
      [] OTHER -> addField(fields, op.k, op.v)

RECURSIVE mockCtxApplyAll(_, _, _)
mockCtxApplyAll(fields, ops, i) ==
    IF i > Len(ops) THEN fields
    ELSE mockCtxApplyAll(mockCtxApply(fields, ops[i]), ops, i + 1)

\* the contexts of the Mock among ctxs
MockContexts(ctxs) == { ctxs[i] : i \in { j \in 1..Len(ctxs) : ctxs[j].sink = MockSink } }

\* the Mock after NewContext made the contexts ctxs and the calls in their ops
\* were made on them: each has a map of its own
MockCreated(mk, ctxs) ==
    LET new == MockContexts(ctxs)
        ids == { c.id : c \in new }
    IN  [mk EXCEPT !.maps =
            [id \in DOMAIN mk.maps \cup ids |->
                IF id \in ids
                THEN LET c == CHOOSE c \in new : c.id = id
                     IN  mockCtxApplyAll(MockNewFields(c.scope), c.ops, 1)
                ELSE mk.maps[id]]]

\* the Mock after the call op was made on each of the contexts ctxs: the call
\* writes into the map the context value refers to
MockApplied(mk, ctxs, op) ==
    LET ids == { c.id : c \in MockContexts(ctxs) } \cap DOMAIN mk.maps
    IN  [mk EXCEPT !.maps =
            [id \in DOMAIN mk.maps |->
                IF id \in ids THEN mockCtxApply(mk.maps[id], op) ELSE mk.maps[id]]]

\* mockCtx.WriteOut, from one goroutine
mockCtxWriteOut(mk, ctx, level, message) ==
    [mk EXCEPT !.Logs = Append(@, MockLogOf(ctx, level, message)),
               !.LogMessages = Append(@, message)]

\* the Mock after the calls (entries of the trace) were received in this order
RECURSIVE MockReceive(_, _, _)
MockReceive(mk, calls, i) ==
    IF i > Len(calls) THEN mk
    ELSE IF calls[i].op = "WriteOut" /\ calls[i].sink = MockSink
         THEN MockReceive(mockCtxWriteOut(mk, calls[i].ctx, calls[i].level, calls[i].msg),
                          calls, i + 1)
    ELSE MockReceive(mk, calls, i + 1)

\* Mock.newEvent that also asks the globally registered sinks
MocknewEventRegistered(level, stack, got, eid) ==
    newEventFromSinks(level, << >>, IF level = LevelPanic THEN "panicString" ELSE "nil",
                      << [sink |-> MockSink, minLevel |-> LevelDebug] >> \o registeredSinks,
                      stack, got, eid)

\* Mock.newEvent: an event over the Mock alone, registered at Debug, with no
\* scope; only Panic passes panicString
MocknewEvent(level, stack, got, eid) ==
    newEventFromSinks(level, << >>, IF level = LevelPanic THEN "panicString" ELSE "nil",
                      << [sink |-> MockSink, minLevel |-> LevelDebug] >>,
                      stack, got, eid)

\* ------------------------------------------------------------------ gormutil
\* gorm.io/gorm/logger.LogLevel
GormSilent == 1
GormError == 2
GormWarn == 3
GormInfo == 4

\* the scope of the Logger NewLogger makes when the configuration has none
ScopeGORM == << "G", "O", "R", "M" >>

\* the errors Trace is called with: none, gorm.ErrRecordNotFound, an error
\* that wraps it, and another error
ErrNil == "nil"
ErrRecordNotFound == "record not found"
ErrWrapsNotFound == "find: record not found"
ErrOther == "connection refused"
GormErrors == {ErrNil, ErrRecordNotFound, ErrWrapsNotFound, ErrOther}

\* errors.Is(err, gorm.ErrRecordNotFound)
IsErrRecordNotFound(err) == err \in {ErrRecordNotFound, ErrWrapsNotFound}

\* NewLogger: config.Logger is << >> for nil and << scope >> for a Logger of
\* that scope; the level starts at Info
NewLogger(config) ==
    [Logger |-> IF config.Logger = << >> THEN ScopeGORM ELSE config.Logger[1],
     AlsoUseGORMLogLevel |-> config.AlsoUseGORMLogLevel,
     IgnoreRecordNotFoundError |-> config.IgnoreRecordNotFoundError,
     SlowThreshold |-> config.SlowThreshold,
     level |-> GormInfo]

\* LogMode: a copy of the logger with the level
LogMode(log, level) == [log EXCEPT !.level = level]

\* shouldLogError that does not ask for the kind of the error
shouldLogErrorAnyError(log, err) ==
    /\ err # ErrNil
    /\ (log.level >= GormError \/ ~log.AlsoUseGORMLogLevel)

shouldLogError(log, err) ==
    /\ err # ErrNil
    /\ (log.level >= GormError \/ ~log.AlsoUseGORMLogLevel)
    /\ (~IsErrRecordNotFound(err) \/ ~log.IgnoreRecordNotFoundError)

shouldLogWarnSlow(log, elapsed) ==
    /\ elapsed > log.SlowThreshold
    /\ log.SlowThreshold # 0
    /\ (log.level >= GormWarn \/ ~log.AlsoUseGORMLogLevel)

shouldLogDebug(log) == log.level = GormInfo \/ ~log.AlsoUseGORMLogLevel

\* withRowsAffected: the call it makes on the event, WithRune("rows", '-') for
\* -1 rows and WithInt64("rows", rows) otherwise
withRowsAffected(rows) ==
    IF rows = -1 THEN AppendRuneOp("rows", "-") ELSE AppendInt64Op("rows", rows)

\* the With... calls of a chain made one after the other on the event
RECURSIVE withEach(_, _, _, _)
withEach(h, ev, ops, i) ==
    IF i > Len(ops) THEN h
    ELSE withEach(IF ops[i].f = "SetError" THEN withFunc(h, ev, ops[i])
                  ELSE withKeyedFunc(h, ev, ops[i]),
                  ev, ops, i + 1)

\* what a call of Trace that logs nothing leaves
TraceNothing ==
    [fc |-> 0, level |-> NoLevel, message |-> << >>,
     r |-> [ev |-> [level |-> 0, ctxs |-> NilSlice, done |-> "nil"],
            heap |-> heap, pool |-> pool, trace |-> trace]]

\* the Message that ends a case of Trace, on the event of n with the fields in h
TraceMessage(level, n, h, eid, message) ==
    LET w == MessageOn(h, [pool |-> n.pool, trace |-> n.trace,
                           nSprintf |-> nSprintf, nString |-> nString],
                       n.ev, eid, message)
    IN  [fc |-> 1, level |-> level, message |-> message,
         r |-> [ev |-> n.ev, heap |-> h, pool |-> w.pool, trace |-> w.trace]]

\* a case of Trace: fc(), the severity method of the Logger, the With... calls
\* and Message
TraceCase(log, level, ops, message, stack, got, eid) ==
    LET n == loggerSeverity(log.Logger, level, stack, got, eid)
    IN  TraceMessage(level, n, withEach(n.heap, n.ev, ops, 1), eid, message)

\* gormLog.Trace; fc returns (sql, rows), elapsed is time.Since(begin);
\* fc is the number of calls of the callback, level the severity method called
gormLogTrace(log, elapsed, sql, rows, err, stack, got, eid) ==
    IF log.level <= GormSilent /\ log.AlsoUseGORMLogLevel THEN TraceNothing
    ELSE IF shouldLogError(log, err)
    THEN TraceCase(log, LevelError,
                   << withRowsAffected(rows), AppendDurationOp("elapsed", elapsed),
                      SetErrorOp(err), AppendStringOp("sql", sql) >>,
                   << "Error in SQL." >>, stack, got, eid)
    ELSE IF shouldLogWarnSlow(log, elapsed)
    THEN TraceCase(log, LevelWarn,
                   << withRowsAffected(rows), AppendDurationOp("elapsed", elapsed),
                      AppendDurationOp("threshold", log.SlowThreshold),
                      AppendStringOp("sql", sql) >>,
                   << "Slow SQL." >>, stack, got, eid)
    ELSE IF shouldLogDebug(log)
    THEN TraceCase(log, LevelDebug,
                   << withRowsAffected(rows), AppendDurationOp("elapsed", elapsed),
                      AppendStringOp("sql", sql) >>,
                   << >>, stack, got, eid)
    ELSE TraceNothing

\* ------------------------------------------------------------------ consolepretty
\* DefaultConfig.Ellipsis, the one character U+2026; a text is the sequence
\* of its characters
DefaultEllipsis == << "U+2026" >>

\* New: the sink of a configuration, with the default Ellipsis for an empty
\* one, and the number of characters of the Ellipsis
consoleprettyNew(conf) ==
    LET ellipsis == IF conf.Ellipsis = << >> THEN DefaultEllipsis ELSE conf.Ellipsis
    IN  [config |-> [conf EXCEPT !.Ellipsis = ellipsis], ellipsisLen |-> Len(ellipsis)]

\* sink.NewContext and context.SetCaller
consoleprettyNewContext(s) ==
    [Config |-> s.config, ellipsisLen |-> s.ellipsisLen, callerFile |-> << >>,
     callerLine |-> 0]
consoleprettySetCaller(c, file, line) ==
    [c EXCEPT !.callerFile = file, !.callerLine = line]

\* printedIntLenFast
RECURSIVE printedIntLenFast(_)
printedIntLenFast(number) ==
    IF number < 0 THEN printedIntLenFast(-number) + 1
    ELSE IF number < 10 THEN 1
    ELSE IF number < 100 THEN 2
    ELSE IF number < 1000 THEN 3
    ELSE IF number < 10000 THEN 4
    ELSE IF number < 100000 THEN 5
    ELSE IF number < 1000000 THEN 6
    ELSE IF number < 10000000 THEN 7
    ELSE IF number < 100000000 THEN 8
    ELSE IF number < 1000000000 THEN 9
    ELSE 10

\* strconv.FormatInt(n, 10)
FormatInt(n) == IF n < 0 THEN << "-" >> \o Decimal(-n) ELSE Decimal(n)

\* writeUntrimmedString: (written, ok) and the text written
writeUntrimmedString(c, value, maxLen) ==
    LET ok == ~(Len(value) > maxLen)
        text == IF ~ok THEN << >>
                ELSE IF Len(value) = 0 \/ maxLen <= 0 THEN << >>
                ELSE IF maxLen <= c.ellipsisLen /\ Len(value) > c.ellipsisLen
                THEN c.Config.Ellipsis
                ELSE value
    IN  [written |-> Len(text), ok |-> ok, text |-> text]

\* writeTrimmedLeft: value[sliceStartIndex:] panics when the index is past the
\* end of the value
writeTrimmedLeft(c, value, maxLen) ==
    LET u == writeUntrimmedString(c, value, maxLen)
        sliceStartIndex == Len(value) - maxLen + c.ellipsisLen
        panics == ~u.ok /\ (sliceStartIndex < 0 \/ sliceStartIndex > Len(value))
    IN  [panic |-> panics,
         written |-> IF u.ok THEN u.written ELSE IF panics THEN 0 ELSE maxLen,
         text |-> IF u.ok THEN u.text
                  ELSE IF panics THEN << >>
                  ELSE c.Config.Ellipsis \o SubSeq(value, sliceStartIndex + 1, Len(value))]

\* the spaces that pad a segment of the given width
Spaces(written, minLen) == [i \in 1..(IF minLen > written THEN minLen - written ELSE 0) |-> " "]

\* context.WriteOut, the part between the scope and the closing bracket: the
\* caller file, the delimiter and the line, then the padding
consoleprettyWriteOut(c) ==
    LET shown == c.callerFile # << >> /\ ~c.Config.DisableCaller
        maxFileWidth ==
            IF c.Config.DisableCallerLine THEN c.Config.CallerMaxLength
            ELSE c.Config.CallerMaxLength - 1 - printedIntLenFast(c.callerLine)
        f == IF c.Config.CallerMaxLength > 0
             THEN writeTrimmedLeft(c, c.callerFile, maxFileWidth)
             ELSE [panic |-> ~shown /\ shown, written |-> Len(c.callerFile),
                   text |-> c.callerFile]
        lineStr == FormatInt(c.callerLine)
        writtenWidth == IF c.Config.DisableCallerLine THEN f.written
                        ELSE f.written + Len(lineStr) + 1
        completes == ~shown \/ ~f.panic
    IN  [panic |-> ~completes,
         caller |-> IF ~shown \/ f.panic THEN << >>
                    ELSE IF c.Config.DisableCallerLine THEN f.text
                    ELSE f.text \o << ":" >> \o lineStr,
         pad |-> IF ~shown \/ f.panic THEN << >>
                 ELSE Spaces(writtenWidth, c.Config.CallerMinLength)]

\* ------------------------------------------------------------------ steps
\* inputs of the With* and terminal calls
Messages == { << "hello" >> }
Formats == { << "q=", "%v" >> }
ArgLists == { << "A" >> }

Open(e) == e \in 1..Len(events) /\ events[e].st = "open"
EventOf(e) == [level |-> events[e].level, ctxs |-> events[e].ctxs, done |-> events[e].done]

\* the Event a call returned (level, ctxs, done) with the record of the call
EventRecord(ev, level, scope, stack) ==
    [level |-> ev.level, ctxs |-> ev.ctxs, done |-> ev.done,
     st |-> "open", pc |-> "", wi |-> 0, local |-> << >>,
     from |-> 0, via |-> "Logger", lvl |-> level, scope |-> scope, stack |-> stack,
     setAt |-> lastSet, regAt |-> registeredSinks,
     withs |-> << >>, fmts |-> << >>, nWith |-> 0,
     term |-> "", arg |-> << >>, sprintfs |-> 0, strings |-> 0]

\* a call that makes an event and leaves the registry alone; c is the record
\* of the call when it is one that returns something to its caller
EventStepReturning(r, rec, c) ==
    /\ heap' = r.heap
    /\ pool' = r.pool
    /\ trace' = r.trace
    /\ events' = Append(events, rec)
    /\ lastCall' = c
    /\ mock' = MockReceive(MockCreated(mock, CtxsOf(r.heap, r.ev.ctxs)),
                           SubSeq(r.trace, Len(trace) + 1, Len(r.trace)), 1)
    /\ UNCHANGED << nSetup, limits >>
    /\ UNCHANGED << minGlobalLevel, minScopedLevels, registeredSinks,
                    LongestScopeNameLength, loggers, nString, nSprintf, lastSet >>

EventStep(r, rec) == EventStepReturning(r, rec, lastCall)

\* log.Debug() ... log.Panic() on a Logger of scope lg, called with the given stack
SeverityCall(lg, level, stack, got) ==
    /\ Len(events) < limits.events
    /\ lg \in loggers
    /\ got \in BagToSet(pool) \cup {0}
    /\ LET r == loggerSeverity(lg, level, stack, got, Len(events) + 1)
       IN  EventStep(r, EventRecord(r.ev, level, lg, stack))

\* mock.Debug() ... mock.Panic() on the Mock itself
MockSeverityCall(level, stack, got) ==
    /\ Len(events) < limits.events
    /\ got \in BagToSet(pool) \cup {0}
    /\ LET r == MocknewEvent(level, stack, got, Len(events) + 1)
       IN  EventStep(r, [EventRecord(r.ev, level, << >>, stack) EXCEPT !.via = "Mock"])

\* NewEvent(level, scope, nil) called directly, with any value of Level
NewEventCall(level, scope, stack, got) ==
    /\ Len(events) < limits.events
    /\ got \in BagToSet(pool) \cup {0}
    /\ LET r == NewEvent(level, scope, "nil", stack, got, Len(events) + 1)
       IN  EventStep(r, EventRecord(r.ev, level, scope, stack))

\* NewEventFromLogger(log, level) on a Logger of scope lg; a call that panics
\* leaves a closed record
NewEventFromLoggerCall(lg, level, stack, got) ==
    /\ Len(events) < limits.events
    /\ lg \in loggers
    /\ got \in BagToSet(pool) \cup {0}
    /\ LET n == NewEventFromLogger(lg, level, stack, got, Len(events) + 1)
       IN  EventStep(n.r, IF n.invalid
                          THEN [EventRecord(n.r.ev, level, lg, stack)
                                   EXCEPT !.st = "closed", !.term = "invalid"]
                          ELSE EventRecord(n.r.ev, level, lg, stack))

\* NewWriter(log, level).Write(p) on a Logger of scope lg
WriteCall(lg, level, p, stack, got) ==
    /\ Len(events) < limits.events
    /\ lg \in loggers
    /\ got \in BagToSet(pool) \cup {0}
    /\ LET n == loggerWriterWrite(lg, level, p, stack, got, Len(events) + 1)
       IN  EventStepReturning(n.r,
               [EventRecord(n.r.ev, level, lg, stack)
                   EXCEPT !.st = "closed",
                          !.term = IF n.invalid THEN "invalid" ELSE "Write",
                          !.arg = IF n.invalid THEN << >> ELSE TrimRight(p)],
               [fn |-> "Write", in |-> [level |-> level, p |-> p, eid |-> Len(events) + 1],
                out |-> loggerWriterReturn(n, p)])

\* no function called yet
NoCall == [fn |-> "", in |-> << >>, out |-> << >>]

\* what a call of a function that changes nothing of the package state leaves
PureFrame ==
    /\ UNCHANGED << minGlobalLevel, minScopedLevels, registeredSinks,
                    LongestScopeNameLength, loggers, heap, pool, mock, events,
                    trace, nString, nSprintf, nSetup, limits, lastSet >>

\* consolepretty.New(conf).NewContext(scope).SetCaller(file, line).WriteOut(...)
PrettyWriteOutCall(max, min, noCaller, noLine, ellipsis, file, line) ==
    LET conf == [CallerMaxLength |-> max, CallerMinLength |-> min,
                 DisableCaller |-> noCaller, DisableCallerLine |-> noLine,
                 Ellipsis |-> ellipsis]
        c == consoleprettySetCaller(consoleprettyNewContext(consoleprettyNew(conf)),
                                    file, line)
    IN  /\ lastCall' = [fn |-> "WriteOut",
                         in |-> [conf |-> conf, file |-> file, line |-> line],
                         out |-> consoleprettyWriteOut(c)]
        /\ PureFrame

\* NewLogger(config) with no Logger in the configuration: logger.NewScoped("GORM")
NewLoggerCall == NewScopedCall(ScopeGORM)

\* the calls of Trace made so far in a run of the GORM logger
TraceCalls == IF lastCall.fn = "Trace" THEN lastCall.in.n ELSE 0

\* NewLogger(config).LogMode(level).Trace(ctx, begin, fc, err) where the
\* configuration has no Logger
TraceCall(config, level, elapsed, rows, err, got) ==
    /\ TraceCalls < limits.events
    /\ config.Logger = << >>
    /\ ScopeGORM \in loggers
    /\ got \in BagToSet(pool) \cup {0}
    /\ LET log == LogMode(NewLogger(config), level)
           eid == Len(events) + 1
           t == gormLogTrace(log, elapsed, << "q" >>, rows, err, "app", got, eid)
           c == [fn |-> "Trace",
                 in |-> [log |-> log, elapsed |-> elapsed, rows |-> rows,
                         err |-> err, eid |-> eid, n |-> TraceCalls + 1],
                 out |-> [fc |-> t.fc, level |-> t.level]]
       IN  IF t.level = NoLevel
           THEN lastCall' = c /\ PureFrame
           ELSE EventStepReturning(t.r,
                    [EventRecord(t.r.ev, t.level, log.Logger, "app")
                        EXCEPT !.st = "closed", !.term = "Trace", !.arg = t.message],
                    c)

\* the caller keeps the Event value e and continues a second chain from it:
\* the copy has the same level, ctxs (the same backing array) and done
BranchCall(e) ==
    /\ limits.branch
    /\ Open(e)
    /\ Len(events) < limits.events
    /\ events' = Append(events, [events[e] EXCEPT !.from = e])
    /\ UNCHANGED << nSetup, limits, mock, lastCall >>
    /\ UNCHANGED << minGlobalLevel, minScopedLevels, registeredSinks,
                    LongestScopeNameLength, loggers, heap, pool, trace,
                    nString, nSprintf, lastSet >>

\* a With* call that only changes the held contexts
WithStep(e, h, op, fmt) ==
    /\ events[e].nWith < limits.with
    /\ UNCHANGED << nSetup, limits, lastCall >>
    /\ heap' = h
    /\ mock' = MockApplied(mock, CtxsOf(heap, events[e].ctxs), op)
    /\ events' = [events EXCEPT ![e].withs = Append(@, op), ![e].nWith = @ + 1,
                                ![e].fmts = @ \o fmt]
    /\ UNCHANGED << minGlobalLevel, minScopedLevels, registeredSinks,
                    LongestScopeNameLength, loggers, pool, trace, lastSet >>

WithStringCall(e, key, value) ==
    /\ Open(e)
    /\ WithStep(e, WithString(heap, EventOf(e), key, value), AppendStringOp(key, value), << >>)
    /\ UNCHANGED << nString, nSprintf >>

WithIntCall(e, key, value) ==
    /\ Open(e)
    /\ WithStep(e, WithInt(heap, EventOf(e), key, value), AppendIntOp(key, value), << >>)
    /\ UNCHANGED << nString, nSprintf >>

WithErrorCall(e, value) ==
    /\ Open(e)
    /\ WithStep(e, WithError(heap, EventOf(e), value), SetErrorOp(value), << >>)
    /\ UNCHANGED << nString, nSprintf >>

WithCallerCall(e, file, line) ==
    /\ Open(e)
    /\ WithStep(e, WithCaller(heap, EventOf(e), file, line), SetCallerOp(file, line), << >>)
    /\ UNCHANGED << nString, nSprintf >>

WithStringfCall(e, key, format, args) ==
    /\ Open(e)
    /\ LET r == WithStringf([heap |-> heap, nSprintf |-> nSprintf, nString |-> nString],
                            EventOf(e), key, format, args)
       IN  /\ WithStep(e, r.heap, AppendStringOp(key, Sprintf(format, args).text),
                        << [call |-> "WithStringf", at |-> Len(events[e].withs) + 1,
                            sprintfs |-> r.nSprintf - nSprintf,
                            strings |-> r.nString - nString] >>)
           /\ nSprintf' = r.nSprintf
           /\ nString' = r.nString

WithStringerCall(e, key, value) ==
    /\ Open(e)
    /\ LET r == WithStringer([heap |-> heap, nSprintf |-> nSprintf, nString |-> nString],
                             EventOf(e), key, value)
       IN  /\ WithStep(e, r.heap, AppendStringOp(key, << StringOf(value) >>),
                        << [call |-> "WithStringer", at |-> Len(events[e].withs) + 1,
                            sprintfs |-> r.nSprintf - nSprintf,
                            strings |-> r.nString - nString] >>)
           /\ nSprintf' = r.nSprintf
           /\ nString' = r.nString

\* the terminal call of a chain
Terminal(e, r, call, arg) ==
    /\ UNCHANGED << nSetup, limits, lastCall >>
    /\ mock' = MockReceive(mock, SubSeq(r.trace, Len(trace) + 1, Len(r.trace)), 1)
    /\ pool' = r.pool
    /\ trace' = r.trace
    /\ nSprintf' = r.nSprintf
    /\ nString' = r.nString
    /\ events' = [events EXCEPT ![e].st = "closed", ![e].term = call, ![e].arg = arg,
                                ![e].sprintfs = r.nSprintf - nSprintf,
                                ![e].strings = r.nString - nString]
    /\ UNCHANGED << minGlobalLevel, minScopedLevels, registeredSinks,
                    LongestScopeNameLength, loggers, heap, lastSet >>

MessageCall(e, message) ==
    /\ Open(e)
    /\ Terminal(e, Message([pool |-> pool, trace |-> trace, nSprintf |-> nSprintf,
                            nString |-> nString], EventOf(e), e, message),
                "Message", message)

MessagefCall(e, format, args) ==
    /\ Open(e)
    /\ Terminal(e, Messagef([pool |-> pool, trace |-> trace, nSprintf |-> nSprintf,
                             nString |-> nString], EventOf(e), e, format, args),
                "Messagef", format)

\* ---- the terminal call of a goroutine, step by step
\* The sink of these runs is one Mock; its WriteOut appends to Mock.Logs and to
\* Mock.LogMessages with no lock, so each append is a load and a later store.
Writing(e) == e \in 1..Len(events) /\ events[e].st = "writing"

\* what a step of a running terminal call leaves alone
WriteStep ==
    UNCHANGED << minGlobalLevel, minScopedLevels, registeredSinks, LongestScopeNameLength,
                 loggers, heap, nString, nSprintf, nSetup, limits, lastSet, lastCall >>

\* Message(message) is entered: the loop over ev.ctxs starts
MessageBegin(e, message) ==
    /\ Open(e)
    /\ events' = [events EXCEPT ![e].st = "writing", ![e].term = "Message",
                                ![e].arg = message, ![e].wi = 0, ![e].pc = "loadLogs"]
    /\ UNCHANGED << pool, mock, trace >>
    /\ WriteStep

\* WriteOut of the next context is called and reads c.logger.Logs
MockLoadLogs(e) ==
    /\ Writing(e)
    /\ events[e].pc = "loadLogs"
    /\ events[e].wi < events[e].ctxs.len
    /\ trace' = Append(trace, TraceWriteOut(e, CtxsOf(heap, events[e].ctxs)[events[e].wi + 1],
                                            events[e].level, events[e].arg))
    /\ events' = [events EXCEPT ![e].local = mock.Logs, ![e].pc = "storeLogs"]
    /\ UNCHANGED << pool, mock >>
    /\ WriteStep

\* c.logger.Logs = append(<what was read>, c.MockLog)
MockStoreLogs(e) ==
    /\ Writing(e)
    /\ events[e].pc = "storeLogs"
    /\ mock' = [mock EXCEPT !.Logs =
                   Append(events[e].local,
                          MockLogOf(CtxsOf(heap, events[e].ctxs)[events[e].wi + 1],
                                    events[e].level, events[e].arg))]
    /\ events' = [events EXCEPT ![e].local = << >>, ![e].pc = "loadMessages"]
    /\ UNCHANGED << pool, trace >>
    /\ WriteStep

\* reads c.logger.LogMessages
MockLoadMessages(e) ==
    /\ Writing(e)
    /\ events[e].pc = "loadMessages"
    /\ events' = [events EXCEPT ![e].local = mock.LogMessages, ![e].pc = "storeMessages"]
    /\ UNCHANGED << pool, mock, trace >>
    /\ WriteStep

\* c.logger.LogMessages = append(<what was read>, message); WriteOut returns
MockStoreMessages(e) ==
    /\ Writing(e)
    /\ events[e].pc = "storeMessages"
    /\ mock' = [mock EXCEPT !.LogMessages = Append(events[e].local, events[e].arg)]
    /\ events' = [events EXCEPT ![e].local = << >>, ![e].pc = "loadLogs", ![e].wi = @ + 1]
    /\ UNCHANGED << pool, trace >>
    /\ WriteStep

\* the loop is over: the slice goes back to the pool, done is called
MessageEnd(e) ==
    /\ Writing(e)
    /\ events[e].pc = "loadLogs"
    /\ events[e].wi = events[e].ctxs.len
    /\ pool' = returnPooledSlice(pool, EventOf(e))
    /\ trace' = IF events[e].done # "nil" THEN panicString(trace, e, events[e].arg)
                ELSE trace
    /\ events' = [events EXCEPT ![e].st = "closed", ![e].pc = ""]
    /\ UNCHANGED mock
    /\ WriteStep

\* ------------------------------------------------------------------ spec
InitWith(lim) ==
    /\ minGlobalLevel = LevelDebug
    /\ minScopedLevels = << >>
    /\ registeredSinks = << >>
    /\ LongestScopeNameLength = 0
    /\ loggers = {}
    /\ heap = << >>
    /\ pool = EmptyBag
    /\ mock = [Logs |-> << >>, LogMessages |-> << >>, maps |-> << >>]
    /\ events = << >>
    /\ trace = << >>
    /\ nString = 0
    /\ nSprintf = 0
    /\ nSetup = 0
    /\ limits = lim
    /\ lastCall = NoCall
    /\ lastSet = [level |-> LevelDebug, scoped |-> [t \in ScopeNames |-> NoLevel],
                  added |-> << >>, removedMin |-> NoLevel, scopedLen |-> 0]

\* ---- runs that set thresholds and sinks and then log without fields
\* the arguments the calls of these runs are made with
GlobalChoices == Levels
ScopedChoices == {LevelDebug, LevelWarn, LevelSilence}
SinkChoices == {LevelDebug, LevelInfo, LevelError, LevelSilence}

Init == InitWith([setup |-> MaxSetup, loggers |-> MaxLoggers, events |-> MaxEvents, with |-> 0, late |-> FALSE, branch |-> FALSE])

Next ==
    \/ \E level \in GlobalChoices : SetLevelCall(level)
    \/ \E level \in ScopedChoices, scope \in ScopeNames : SetLevelScopedCall(level, scope)
    \/ ClearOutputsCall
    \/ \E minLevel \in SinkChoices, sink \in SinkIds : AddOutputCall(minLevel, sink)
    \/ NewCall
    \/ \E scope \in ScopeNames : NewScopedCall(scope)
    \/ \E lg \in loggers, level \in EventLevels, got \in BagToSet(pool) \cup {0} :
          SeverityCall(lg, level, "app", got)
    \/ \E e \in 1..Len(events), m \in Messages : MessageCall(e, m)
    \/ \E e \in 1..Len(events), format \in Formats, args \in ArgLists :
          MessagefCall(e, format, args)

Spec == Init /\ [][Next]_vars

\* ---- runs that follow the chain of With* calls on an event
InitChain ==
    InitWith([setup |-> MaxChainSetup, loggers |-> MaxLoggers,
              events |-> MaxChainEvents, with |-> MaxWith, late |-> FALSE,
              branch |-> FALSE])

NextChain ==
    \/ \E level \in {LevelWarn, LevelSilence} : SetLevelCall(level)
    \/ SetLevelScopedCall(LevelSilence, << "D", "B" >>)
    \/ ClearOutputsCall
    \/ \E minLevel \in {LevelDebug, LevelError}, sink \in SinkIds : AddOutputCall(minLevel, sink)
    \/ NewCall
    \/ NewScopedCall(<< "d", "b" >>)
    \/ \E lg \in loggers, level \in EventLevels, stack \in Stacks, got \in BagToSet(pool) \cup {0} :
          SeverityCall(lg, level, stack, got)
    \/ \E e \in 1..Len(events) : WithStringCall(e, "k", << "v" >>)
    \/ \E e \in 1..Len(events) : WithIntCall(e, "n", 5)
    \/ \E e \in 1..Len(events) : WithErrorCall(e, << "boom" >>)
    \/ \E e \in 1..Len(events) : WithCallerCall(e, << "manual", ".go" >>, 7)
    \/ \E e \in 1..Len(events), format \in Formats, args \in ArgLists :
          WithStringfCall(e, "f", format, args)
    \/ \E e \in 1..Len(events), x \in Stringers : WithStringerCall(e, "s", x)
    \/ \E e \in 1..Len(events), m \in Messages : MessageCall(e, m)
    \/ \E e \in 1..Len(events), format \in Formats, args \in ArgLists :
          MessagefCall(e, format, args)

SpecChain == InitChain /\ [][NextChain]_vars

\* ---- runs in which the registry also changes while an event is being built
InitLate ==
    InitWith([setup |-> MaxLateSetup, loggers |-> MaxLoggers,
              events |-> MaxLateEvents, with |-> 0, late |-> TRUE, branch |-> FALSE])

NextLate ==
    \/ \E level \in {LevelWarn, LevelSilence} : SetLevelCall(level)
    \/ SetLevelScopedCall(LevelError, << "d", "b" >>)
    \/ SetLevelScopedCall(LevelPanic, << "D", "B" >>)
    \/ ClearOutputsCall
    \/ \E minLevel \in {LevelDebug, LevelError}, sink \in SinkIds : AddOutputCall(minLevel, sink)
    \/ NewCall
    \/ NewScopedCall(<< "D", "B" >>)
    \/ \E lg \in loggers, level \in EventLevels, got \in BagToSet(pool) \cup {0} :
          SeverityCall(lg, level, "app", got)
    \/ \E e \in 1..Len(events), m \in Messages : MessageCall(e, m)
    \/ \E e \in 1..Len(events), format \in Formats, args \in ArgLists :
          MessagefCall(e, format, args)

SpecLate == InitLate /\ [][NextLate]_vars

\* ---- runs in which a partially built event is kept and continued twice
InitBranch ==
    InitWith([setup |-> MaxBranchSetup, loggers |-> MaxLoggers,
              events |-> MaxBranchEvents, with |-> MaxWith, late |-> FALSE,
              branch |-> TRUE])

NextBranch ==
    \/ \E minLevel \in {LevelDebug, LevelError}, sink \in SinkIds : AddOutputCall(minLevel, sink)
    \/ NewCall
    \/ \E lg \in loggers, level \in {LevelInfo, LevelPanic}, stack \in Stacks,
          got \in BagToSet(pool) \cup {0} :
          SeverityCall(lg, level, stack, got)
    \/ \E e \in 1..Len(events) : BranchCall(e)
    \/ \E e \in 1..Len(events) : WithStringCall(e, "k", << "v" >>)
    \/ \E e \in 1..Len(events) : WithIntCall(e, "n", 5)
    \/ \E e \in 1..Len(events), m \in Messages : MessageCall(e, m)

SpecBranch == InitBranch /\ [][NextBranch]_vars

\* ---- runs of goroutines that log at once to one shared Mock
\* the message goroutine e logs, and the field value it appends
MessageOf(e) == << "m", ToString(e) >>

InitConc ==
    InitWith([setup |-> MaxConcSetup, loggers |-> MaxLoggers,
              events |-> MaxConcEvents, with |-> MaxConcWith, late |-> FALSE,
              branch |-> FALSE])

NextConc ==
    \/ \E minLevel \in {LevelDebug, LevelError} : AddOutputCall(minLevel, MockSink)
    \/ NewCall
    \/ \E lg \in loggers, level \in {LevelInfo, LevelError}, got \in BagToSet(pool) \cup {0} :
          SeverityCall(lg, level, "app", got)
    \/ \E e \in 1..Len(events) : WithIntCall(e, "n", e)
    \/ \E e \in 1..Len(events) : MessageBegin(e, MessageOf(e))
    \/ \E e \in 1..Len(events) : MockLoadLogs(e)
    \/ \E e \in 1..Len(events) : MockStoreLogs(e)
    \/ \E e \in 1..Len(events) : MockLoadMessages(e)
    \/ \E e \in 1..Len(events) : MockStoreMessages(e)
    \/ \E e \in 1..Len(events) : MessageEnd(e)

SpecConc == InitConc /\ [][NextConc]_vars

\* ---- runs through every public way of making an event: the severity
\* methods, NewEvent, NewEventFromLogger and the writer of NewWriter
WriterInputs == { << "x", "\n" >>, << "x", "\n", "\n" >>, << "\n", "x" >> }

InitEntry ==
    InitWith([setup |-> MaxEntrySetup, loggers |-> MaxLoggers,
              events |-> MaxEntryEvents, with |-> 0, late |-> FALSE,
              branch |-> FALSE])

NextEntry ==
    \/ \E level \in {LevelWarn, LevelSilence} : SetLevelCall(level)
    \/ \E minLevel \in {LevelDebug, LevelSilence}, sink \in SinkIds :
          AddOutputCall(minLevel, sink)
    \/ NewCall
    \/ \E lg \in loggers, level \in EventLevels, got \in BagToSet(pool) \cup {0} :
          SeverityCall(lg, level, "app", got)
    \/ \E level \in Levels, scope \in { << >>, << "g" >> },
          got \in BagToSet(pool) \cup {0} :
          NewEventCall(level, scope, "app", got)
    \/ \E lg \in loggers, level \in Levels, got \in BagToSet(pool) \cup {0} :
          NewEventFromLoggerCall(lg, level, "app", got)
    \/ \E lg \in loggers, level \in Levels, p \in WriterInputs,
          got \in BagToSet(pool) \cup {0} :
          WriteCall(lg, level, p, "app", got)
    \/ \E e \in 1..Len(events), m \in Messages : MessageCall(e, m)

SpecEntry == InitEntry /\ [][NextEntry]_vars

\* ---- runs with the Mock registered as a sink, from one goroutine
InitMock ==
    InitWith([setup |-> MaxMockSetup, loggers |-> MaxLoggers,
              events |-> MaxMockEvents, with |-> MaxMockWith, late |-> FALSE,
              branch |-> FALSE])

NextMock ==
    \/ \E minLevel \in {LevelDebug, LevelWarn} : AddOutputCall(minLevel, MockSink)
    \/ AddOutputCall(LevelDebug, "s1")
    \/ NewCall
    \/ NewScopedCall(<< "D", "B" >>)
    \/ \E lg \in loggers, level \in {LevelInfo, LevelWarn, LevelPanic},
          stack \in Stacks, got \in BagToSet(pool) \cup {0} :
          SeverityCall(lg, level, stack, got)
    \/ \E e \in 1..Len(events), value \in { << "v" >>, << "w" >> } :
          WithStringCall(e, "k", value)
    \/ \E e \in 1..Len(events) : WithStringCall(e, "scope", << "x" >>)
    \/ \E e \in 1..Len(events) : WithIntCall(e, "rows", 5)
    \/ \E e \in 1..Len(events), format \in Formats, args \in ArgLists :
          WithStringfCall(e, "f", format, args)
    \/ \E e \in 1..Len(events), m \in Messages : MessageCall(e, m)
    \/ \E e \in 1..Len(events), format \in Formats, args \in ArgLists :
          MessagefCall(e, format, args)

SpecMock == InitMock /\ [][NextMock]_vars

\* ---- runs with the Mock used as a Logger, from one goroutine; an Event
\* value may be kept and continued a second time
InitMockLogger ==
    InitWith([setup |-> MaxOwnSetup, loggers |-> 0,
              events |-> MaxOwnEvents, with |-> MaxOwnWith, late |-> FALSE,
              branch |-> TRUE])

NextMockLogger ==
    \/ \E level \in {LevelWarn, LevelSilence} : SetLevelCall(level)
    \/ \E level \in {LevelDebug, LevelError} : SetLevelScopedCall(level, << >>)
    \/ SetLevelScopedCall(LevelSilence, << "g" >>)
    \/ \E sink \in {MockSink, "s1"} : AddOutputCall(LevelDebug, sink)
    \/ \E level \in EventLevels, got \in BagToSet(pool) \cup {0} :
          MockSeverityCall(level, "app", got)
    \/ \E e \in 1..Len(events) : BranchCall(e)
    \/ \E e \in 1..Len(events) : WithStringCall(e, "k", << "v" >>)
    \/ \E e \in 1..Len(events) : WithIntCall(e, "rows", 5)
    \/ \E e \in 1..Len(events), m \in Messages : MessageCall(e, m)

SpecMockLogger == InitMockLogger /\ [][NextMockLogger]_vars

\* ---- calls of CallerFileWithLineNum on stacks of every depth
PathLoggerTest == << "/", "w", "/", "pkg", "/", "logger", "/", "logger", "_test.go" >>
PathLibMain == << "/", "w", "/", "cmd", "/", "main.go" >>
\* a file of the directory /w-x, next to the library's /w
PathSibling == << "/", "w", "-x", "/", "pkg", "/", "x", ".go" >>

\* the paths of the frame the walk may stop at
CallerPaths == { PathApp, PathLoggerTest, PathLibMain, PathSibling, PathLogger }

\* a stack, innermost first: CallerFileWithLineNum itself, its caller in
\* file first, k library frames, a frame in file cand and, with tail, the
\* application and runtime frames under it; the line of a frame is 100 more
\* than its depth
StackOf(first, k, cand, tail) ==
    LET paths == << PathTraceutil, first >> \o [i \in 1..k |-> PathLogger]
                    \o << cand >>
                    \o (IF tail THEN << PathApp, PathRuntime >> ELSE << >>)
    IN  [i \in 1..Len(paths) |-> Frame(paths[i], 99 + i)]

CallerFileWithLineNumCall(stack) ==
    /\ lastCall' = [fn |-> "CallerFileWithLineNum",
                     in |-> [i \in 1..Len(stack) |-> Frame(stack[i].path, stack[i].line)],
                     out |-> CallerFileWithLineNum(stack)]
    /\ PureFrame

InitCaller ==
    InitWith([setup |-> 0, loggers |-> 0, events |-> 0, with |-> 0,
              late |-> FALSE, branch |-> FALSE])

NextCaller ==
    \E first \in { PathEvent, PathApp }, k \in 0..MaxLibFrames,
       cand \in CallerPaths, tail \in BOOLEAN :
        CallerFileWithLineNumCall(StackOf(first, k, cand, tail))

SpecCaller == InitCaller /\ [][NextCaller]_vars

\* ---- calls of ParseLevel and of Level.String
\* the texts ParseLevel is called with: the names it knows and others, in lower
\* case, in upper case and capitalised, with and without white space around
LevelTexts ==
    { << "d" >>,
      << "d", "e", "b", "u", "g" >>,
      << "d", "e", "b", "u", "g", "g", "i", "n", "g" >>,
      << "i" >>,
      << "i", "n", "f", "o" >>,
      << "i", "n", "f", "o", "r", "m", "a", "t", "i", "o", "n" >>,
      << "w" >>,
      << "w", "a", "r", "n" >>,
      << "w", "a", "r", "n", "i", "n", "g" >>,
      << "e" >>,
      << "e", "r", "r", "o", "r" >>,
      << "p" >>,
      << "p", "a", "n", "i", "c" >>,
      << >>,
      << "x" >>,
      << "d", "e", "b", "u" >>,
      << "w", "a", "r", "n", "n" >>,
      << "d", "e", " ", "b", "u", "g" >>,
      << "s", "i", "l", "e", "n", "c", "e" >>,
      << "s" >>,
      << "l", "e", "v", "e", "l", "(", "5", ")" >>,
      << "5" >>,
      << "e", "r", "r" >>,
      << "f", "a", "t", "a", "l" >>,
      << "t", "r", "a", "c", "e" >> }

Capitalised(s) == IF s = << >> THEN s ELSE << UpperChar(s[1]) >> \o Tail(s)

LevelInputs ==
    { pre \o c \o post :
        pre \in { << >>, << " " >>, << "\t", " " >> },
        c \in UNION { { s, ToUpper(s), Capitalised(s) } : s \in LevelTexts },
        post \in { << >>, << "\n" >> } }

ParseLevelCall(text) ==
    /\ lastCall' = [fn |-> "ParseLevel", in |-> text, out |-> ParseLevel(text)]
    /\ PureFrame

\* ParseLevel(lvl.String())
RoundTripCall(lvl) ==
    /\ lastCall' = [fn |-> "RoundTrip", in |-> << lvl >>,
                     out |-> [text |-> LevelString(lvl),
                              parsed |-> ParseLevel(LevelString(lvl))]]
    /\ PureFrame

InitLevel ==
    InitWith([setup |-> 0, loggers |-> 0, events |-> 0, with |-> 0,
              late |-> FALSE, branch |-> FALSE])

NextLevel ==
    \/ \E text \in LevelInputs : ParseLevelCall(text)
    \/ \E lvl \in 0..MaxLevelByte : RoundTripCall(lvl)

SpecLevel == InitLevel /\ [][NextLevel]_vars

\* ---- runs of the GORM logger over the Logger of scope GORM
GormConfig(also, ignore, slow) ==
    [Logger |-> << >>, AlsoUseGORMLogLevel |-> also,
     IgnoreRecordNotFoundError |-> ignore, SlowThreshold |-> slow]

InitGorm ==
    InitWith([setup |-> MaxGormSetup, loggers |-> MaxLoggers,
              events |-> MaxGormEvents, with |-> 0, late |-> FALSE,
              branch |-> FALSE])

NextGorm ==
    \/ \E level \in {LevelWarn, LevelError} : SetLevelCall(level)
    \/ AddOutputCall(LevelDebug, "s1")
    \/ NewLoggerCall
    \/ \E also \in BOOLEAN, ignore \in BOOLEAN, slow \in {0, 2},
          level \in 0..(GormInfo + 1), elapsed \in {1, 3},
          rows \in {-1, 5}, err \in GormErrors, got \in BagToSet(pool) \cup {0} :
          TraceCall(GormConfig(also, ignore, slow), level, elapsed, rows, err, got)

SpecGorm == InitGorm /\ [][NextGorm]_vars

\* ---- runs of the pretty-console sink over configurations, files and lines
PrettyEllipses == { << >>, << ".", "." >> }

PrettyFiles ==
    { << >>, << "a", ".", "g", "o" >>,
      << "p", "k", "g", "/", "a", "b", ".", "g", "o" >> }

PrettyLines == {-1, 7, 42, 123}

InitPretty ==
    InitWith([setup |-> 0, loggers |-> 0, events |-> 0, with |-> 0,
              late |-> FALSE, branch |-> FALSE])

NextPretty ==
    \E max \in 0..MaxCallerMaxLength, min \in {0, 4}, noCaller \in BOOLEAN,
       noLine \in BOOLEAN, ellipsis \in PrettyEllipses,
       file \in PrettyFiles, line \in PrettyLines :
        PrettyWriteOutCall(max, min, noCaller, noLine, ellipsis, file, line)

SpecPretty == InitPretty /\ [][NextPretty]_vars

\* ------------------------------------------------------------------ properties
Max(a, b) == IF a >= b THEN a ELSE b

EventIds == 1..Len(events)

\* number of entries of a sequence that satisfy Test
Count(seq, Test(_)) == Len(SelectSeq(seq, Test))

\* how often sink s was asked for a Context for event e, and got WriteOut for it
Asked(e, s) == Count(trace, LAMBDA t : t.op = "NewContext" /\ t.ev = e /\ t.sink = s)
Written(e, s) == Count(trace, LAMBDA t : t.op = "WriteOut" /\ t.ev = e /\ t.sink = s)
SinkCalls(e) == Count(trace, LAMBDA t : t.op # "panic" /\ t.ev = e)
Panics(e) == Count(trace, LAMBDA t : t.op = "panic" /\ t.ev = e)

\* at the severity call of event e: the last SetLevel value, the last override
\* set for scope sc (NoLevel when none), and the threshold they give
GlobalAt(e) == events[e].setAt.level
OverrideAt(e, sc) == events[e].setAt.scoped[sc]
ThresholdAt(e) ==
    IF OverrideAt(e, events[e].scope) = NoLevel THEN GlobalAt(e)
    ELSE Max(GlobalAt(e), OverrideAt(e, events[e].scope))

\* the registrations of sink s, at the severity call of e, that admit level l
\* under threshold thr
Admitting(e, s, thr) ==
    Count(events[e].regAt,
          LAMBDA r : r.sink = s /\ events[e].lvl >= r.minLevel /\ events[e].lvl >= thr)

\* C1: a registered sink is asked for a Context for an event, and receives its
\* WriteOut at the terminal call, exactly when the event's level is at least the
\* sink's registered minimum and at least the threshold of the event's scope at
\* the severity call (once per such registration).
C1_DeliveredIffAdmitted ==
    \A e \in EventIds : \A s \in SinkIds :
        /\ Asked(e, s) = Admitting(e, s, ThresholdAt(e))
        /\ Written(e, s) = IF events[e].st = "closed"
                           THEN Admitting(e, s, ThresholdAt(e)) ELSE 0

\* a closed event that a sink registered at its level received and a sink
\* registered above its level did not, under a raised threshold
C1_Witness ==
    \E e \in EventIds :
        /\ events[e].st = "closed"
        /\ ThresholdAt(e) > LevelDebug
        /\ Len(events[e].regAt) = 2
        /\ events[e].regAt[1].minLevel = events[e].lvl
        /\ events[e].regAt[2].minLevel > events[e].lvl
        /\ events[e].regAt[1].sink # events[e].regAt[2].sink
        /\ Written(e, events[e].regAt[1].sink) = 1
        /\ Written(e, events[e].regAt[2].sink) = 0

\* the scopes that carry an override above the global minimum at the severity call
OverriddenAt(e) ==
    { sc \in ScopeNames : OverrideAt(e, sc) # NoLevel /\ OverrideAt(e, sc) > GlobalAt(e) }

\* C2 as stated: under an override O > G of scope S, events of S below O reach
\* no sink, and events of every other scope are filtered by G only.
C2_OtherScopesByGlobalOnly ==
    \A e \in EventIds : \A sc \in OverriddenAt(e) :
        /\ (events[e].scope = sc /\ events[e].lvl < OverrideAt(e, sc)) => SinkCalls(e) = 0
        /\ ~EqualFold(events[e].scope, sc) =>
              \A s \in SinkIds : Asked(e, s) = Admitting(e, s, GlobalAt(e))

\* C2 amended: under an override O > G of scope S, events of S below O reach no
\* sink (none at all when O is Silence); events of another scope, the unscoped
\* logger being the scope "", are filtered by G and by the override of their own
\* scope when one is set, never by O: an event of a scope without an override
\* is filtered by G only.
C2_OverrideAppliesToItsScopeOnly ==
    \A e \in EventIds : \A sc \in OverriddenAt(e) :
        /\ (events[e].scope = sc /\ events[e].lvl < OverrideAt(e, sc)) => SinkCalls(e) = 0
        /\ (events[e].scope = sc /\ OverrideAt(e, sc) = LevelSilence) => SinkCalls(e) = 0
        /\ ~EqualFold(events[e].scope, sc) =>
              \A s \in SinkIds :
                  /\ Asked(e, s) =
                        Admitting(e, s, Max(GlobalAt(e),
                                            OverrideAt(e, events[e].scope)))
                  /\ Written(e, s) = IF events[e].st = "closed" THEN Asked(e, s) ELSE 0

\* an Error event of the unscoped logger is delivered while another scope is
\* silenced
C2_Witness ==
    \E e \in EventIds : \E sc \in OverriddenAt(e) :
        /\ events[e].st = "closed"
        /\ events[e].scope = << >>
        /\ events[e].lvl = LevelError
        /\ OverrideAt(e, sc) = LevelSilence
        /\ ~EqualFold(events[e].scope, sc)
        /\ \E s \in SinkIds : Written(e, s) = 1

\* C3: the threshold applied to an event of scope S is max(G, O_S), G the last
\* SetLevel value (Debug if none) and O_S the last override set for S (G if
\* none): the event gets past the threshold exactly when its level is at least
\* that, and no event below G reaches a sink.
C3_ThresholdIsMax ==
    \A e \in EventIds :
        LET o == IF OverrideAt(e, events[e].scope) = NoLevel THEN GlobalAt(e)
                 ELSE OverrideAt(e, events[e].scope)
        IN  /\ (events[e].ctxs.arr # 0) <=> (events[e].lvl >= Max(GlobalAt(e), o))
            /\ events[e].lvl < GlobalAt(e) => SinkCalls(e) = 0

\* an event suppressed by G although the override of its scope, set after G,
\* would admit it
C3_Witness ==
    \E e \in EventIds :
        /\ OverrideAt(e, events[e].scope) # NoLevel
        /\ OverrideAt(e, events[e].scope) < events[e].lvl
        /\ events[e].lvl < GlobalAt(e)
        /\ events[e].regAt # << >>
        /\ events[e].ctxs.arr = 0

\* C4 as stated: a terminated Panic event has raised a panic, whatever the
\* thresholds and the sinks.
C4_PanicAlwaysRaised ==
    \A e \in EventIds :
        (events[e].st = "closed" /\ events[e].lvl = LevelPanic) => Panics(e) = 1

\* ---- the chain of an event
\* the contexts event e holds
Held(e) == CtxsOf(heap, events[e].ctxs)

\* positions of the trace with a WriteOut of event e, and with its panic
WriteOutsOf(e) == { j \in 1..Len(trace) : trace[j].op = "WriteOut" /\ trace[j].ev = e }
PanicsOf(e) == { j \in 1..Len(trace) : trace[j].op = "panic" /\ trace[j].ev = e }
NewContextsOf(e) == { j \in 1..Len(trace) : trace[j].op = "NewContext" /\ trace[j].ev = e }

\* the final message text of a terminated event: the argument of Message, or
\* what the format "q=%v" gives with an argument whose String() is "a"
FinalText(e) ==
    IF events[e].term = "Message" THEN events[e].arg ELSE << "q=", "a" >>

\* the caller attached at the severity call: the application frame of the
\* stack when the walk reaches it
CallerOps(e) ==
    IF events[e].stack = "app"
    THEN << [f |-> "SetCaller", k |-> << "cmd", "/", "run", ".go" >>, v |-> << 42 >>] >>
    ELSE << >>

\* C5: terminating a Panic event that holds contexts writes out every held
\* context before the panic is raised, and the panic carries exactly the final
\* message text.
C5_PanicAfterWriteOuts ==
    \A e \in EventIds :
        (events[e].st = "closed" /\ events[e].lvl = LevelPanic /\ events[e].ctxs.len >= 1) =>
            /\ Cardinality(PanicsOf(e)) = 1
            /\ \A p \in PanicsOf(e) :
                  /\ trace[p].msg = FinalText(e)
                  /\ \A i \in 1..events[e].ctxs.len :
                        \E j \in WriteOutsOf(e) : j < p /\ trace[j].ctx.id = << e, i >>

\* a Panic event with two contexts terminated by Messagef
C5_Witness ==
    \E e \in EventIds :
        /\ events[e].st = "closed"
        /\ events[e].lvl = LevelPanic
        /\ events[e].ctxs.len = 2
        /\ events[e].term = "Messagef"
        /\ Cardinality(PanicsOf(e)) = 1

\* C6: each Context created for an event receives WriteOut exactly once, at
\* the terminal call and not before, with the level of the event and the final
\* message, on the context value the last With* call returned: it carries the
\* caller and every field of the chain, in order.
C6_WriteOutOncePerContext ==
    \A e \in EventIds :
        /\ events[e].st = "open" => WriteOutsOf(e) = {}
        /\ events[e].st = "closed" =>
              \A n \in NewContextsOf(e) :
                  LET w == { j \in WriteOutsOf(e) : trace[j].ctx.id = trace[n].ctx.id }
                  IN  /\ Cardinality(w) = 1
                      /\ \A j \in w :
                            /\ j > n
                            /\ trace[j].level = events[e].lvl
                            /\ trace[j].msg = FinalText(e)
                            /\ trace[j].sink = trace[n].sink
                            /\ trace[j].ctx.ops = CallerOps(e) \o events[e].withs
        /\ Cardinality(WriteOutsOf(e)) <= Cardinality(NewContextsOf(e))

\* a chain of a severity call, two With* calls and Message on two contexts
C6_Witness ==
    \E e \in EventIds :
        /\ events[e].st = "closed"
        /\ events[e].term = "Message"
        /\ events[e].nWith = 2
        /\ Cardinality(NewContextsOf(e)) = 2
        /\ Cardinality(WriteOutsOf(e)) = 2

\* C7: after any sequence of With* calls, all contexts an event holds carry
\* the same Set/Append calls, with the same keys and values, in the order of
\* the calls.
C7_FanOutUniform ==
    \A e \in EventIds :
        events[e].st = "open" =>
            \A i \in 1..Len(Held(e)) :
                Held(e)[i].ops = CallerOps(e) \o events[e].withs

\* an event with two contexts after two With* calls
C7_Witness ==
    \E e \in EventIds :
        /\ events[e].st = "open"
        /\ Len(Held(e)) = 2
        /\ events[e].nWith = 2
        /\ Len(Held(e)[2].ops) = 3

\* the sink calls of event e that a step adds to the trace
NewSinkCalls(e) ==
    { j \in (Len(trace) + 1)..Len(trace') : trace'[j].op # "panic" /\ trace'[j].ev = e }

\* in every state: the sinks asked for a Context admit the event, and an event
\* without contexts has reached no sink
NoContextWhenNotAdmitted ==
    \A e \in EventIds :
        /\ \A n \in NewContextsOf(e) :
              /\ events[e].lvl >= ThresholdAt(e)
              /\ \E i \in 1..Len(events[e].regAt) :
                    /\ events[e].regAt[i].sink = trace[n].sink
                    /\ events[e].regAt[i].minLevel <= events[e].lvl
        /\ events[e].lvl < ThresholdAt(e) => events[e].ctxs = NilSlice
        /\ events[e].ctxs.len = 0 => SinkCalls(e) = 0

\* in every step on an event without contexts: no Context changes, no sink is called
NoContextStepIsNoOp ==
    \A e \in EventIds :
        (events[e].ctxs.len = 0 /\ events'[e] # events[e]) =>
            /\ heap' = heap
            /\ NewSinkCalls(e) = {}

\* C8: a sink whose registered minimum, or the threshold of the scope, is above
\* the level of an event is not asked for a Context for it; and on an event
\* that holds no context, no With* call and no terminal call reaches a sink or
\* changes a Context.
C8_SuppressedTouchesNoSink == []NoContextWhenNotAdmitted /\ [][NoContextStepIsNoOp]_vars

\* a terminated event with With* calls that a registered sink did not admit
C8_Witness ==
    \E e \in EventIds :
        /\ events[e].st = "closed"
        /\ events[e].nWith = 2
        /\ events[e].regAt # << >>
        /\ events[e].lvl >= ThresholdAt(e)
        /\ events[e].ctxs.arr # 0
        /\ events[e].ctxs.len = 0
        /\ SinkCalls(e) = 0

C10_FormatOnceWhenHeld ==
    \A e \in EventIds : \A c \in 1..Len(events[e].fmts) :
        LET f == events[e].fmts[c]
            text == IF f.call = "WithStringf" THEN << "q=", "a" >> ELSE << "a" >>
            key == IF f.call = "WithStringf" THEN "f" ELSE "s"
        IN  IF events[e].ctxs.len = 0
            THEN f.sprintfs = 0 /\ f.strings = 0
            ELSE /\ f.sprintfs = (IF f.call = "WithStringf" THEN 1 ELSE 0)
                 /\ f.strings = 1
                 /\ events[e].st = "open" =>
                       \A i \in 1..Len(Held(e)) :
                           Held(e)[i].ops[Len(CallerOps(e)) + f.at] =
                               [f |-> "AppendString", k |-> key, v |-> text]

\* WithStringf and WithStringer, one after the other, on an event with two contexts
C10_Witness ==
    \E e \in EventIds :
        /\ events[e].st = "open"
        /\ Len(events[e].fmts) = 2
        /\ events[e].fmts[1].call # events[e].fmts[2].call
        /\ Len(Held(e)) = 2

\* ---- chains continued from a kept event
\* C11 as stated: when a partially built event is kept and two chains are
\* continued from it, every record a chain emits carries the caller, the fields
\* of the kept event and the fields of its own chain only.
C11_ChainsIndependent ==
    \A e \in EventIds :
        events[e].st = "closed" =>
            \A j \in WriteOutsOf(e) :
                trace[j].ctx.ops = CallerOps(e) \o events[e].withs

\* ---- goroutines
\* the events that hold a slice taken from the pool and not yet returned
Holding(e) == events[e].st \in {"open", "writing"} /\ events[e].ctxs.arr # 0

\* in every state: a slice is held by one undispatched event at most and is not
\* in the pool while held, the pool holds no slice twice, and every record is
\* made of its own event's level, message, caller and fields
SlicesOwned ==
    /\ \A e1, e2 \in EventIds :
          (e1 # e2 /\ Holding(e1) /\ Holding(e2)) => events[e1].ctxs.arr # events[e2].ctxs.arr
    /\ \A e \in EventIds : Holding(e) => ~BagIn(events[e].ctxs.arr, pool)
    /\ \A a \in BagToSet(pool) : CopiesIn(a, pool) = 1
    /\ \A i \in 1..Len(mock.Logs) :
          LET e == mock.Logs[i].ctx.id[1]
          IN  /\ mock.Logs[i].Level = events[e].lvl
              /\ mock.Logs[i].Message = MessageOf(e)
              /\ mock.Logs[i].ctx.ops = CallerOps(e) \o events[e].withs
    /\ \A j \in 1..Len(trace) :
          trace[j].op = "WriteOut" =>
              /\ trace[j].ctx.id[1] = trace[j].ev
              /\ trace[j].msg = MessageOf(trace[j].ev)
              /\ trace[j].ctx.ops = CallerOps(trace[j].ev) \o events[trace[j].ev].withs

\* in every step: the pool grows only by the slice of an event whose terminal
\* call ends in this step, and by one copy of it; and the end of a terminal
\* call puts the slice of its event into the pool
ReturnedAtTerminalOnly ==
    /\ \A a \in BagToSet(pool') :
          CopiesIn(a, pool') > CopiesIn(a, pool) =>
              /\ CopiesIn(a, pool') = CopiesIn(a, pool) + 1
              /\ \E e \in EventIds :
                    /\ events[e].ctxs.arr = a
                    /\ events[e].st = "writing"
                    /\ events'[e].st = "closed"
    /\ \A e \in EventIds :
          (events[e].st # "closed" /\ events'[e].st = "closed" /\ events[e].ctxs.arr # 0) =>
              CopiesIn(events[e].ctxs.arr, pool') = CopiesIn(events[e].ctxs.arr, pool) + 1

\* C12: with a fixed registry and goroutines that each run complete chains, no
\* slice of the pool is held by two undispatched events at once, a slice goes
\* back to the pool once and only at the terminal call of its event, and every
\* record carries the fields and message of its own event only.
C12_SlicesExclusive == []SlicesOwned /\ [][ReturnedAtTerminalOnly]_vars

\* two goroutines in their chains at once, each holding a slice with a context:
\* one inside its terminal call, the other after a With* call
C12_Witness ==
    \E e1, e2 \in EventIds :
        /\ e1 # e2
        /\ events[e1].st = "writing"
        /\ events[e2].st = "open"
        /\ events[e1].ctxs.len = 1
        /\ events[e2].ctxs.len = 1
        /\ events[e2].nWith = 1

\* all goroutines are done
AllDone == events # << >> /\ \A e \in EventIds : events[e].st = "closed"

\* C13 as stated: when goroutines that log at once to one shared Mock are done,
\* no event is lost or duplicated: len(Mock.Logs) = len(Mock.LogMessages) = the
\* number of events delivered to it.
C13_MockKeepsEveryEvent ==
    AllDone =>
        /\ Len(mock.Logs) = Cardinality({ j \in 1..Len(trace) : trace[j].op = "WriteOut" })
        /\ Len(mock.LogMessages) = Len(mock.Logs)

\* ---- the registry of sinks
\* the AddOutput calls since the last ClearOutputs, at the severity call of e,
\* that admit the level of e
AdmittedAt(e) ==
    SelectSeq(events[e].setAt.added,
              LAMBDA r : events[e].lvl >= r.minLevel /\ events[e].lvl >= ThresholdAt(e))

NewContextSeq(e) == SelectSeq(trace, LAMBDA t : t.op = "NewContext" /\ t.ev = e)
WriteOutSeq(e) == SelectSeq(trace, LAMBDA t : t.op = "WriteOut" /\ t.ev = e)

\* C14: an event asks the qualifying sinks for contexts, and its terminal call
\* writes them out, in the order of the AddOutput calls; a sink added twice
\* gets two contexts and two records.
C14_InRegistrationOrder ==
    \A e \in EventIds :
        /\ Len(NewContextSeq(e)) = Len(AdmittedAt(e))
        /\ \A i \in 1..Len(AdmittedAt(e)) :
              /\ NewContextSeq(e)[i].sink = AdmittedAt(e)[i].sink
              /\ NewContextSeq(e)[i].ctx.id = << e, i >>
        /\ events[e].st = "closed" =>
              /\ Len(WriteOutSeq(e)) = Len(AdmittedAt(e))
              /\ \A i \in 1..Len(AdmittedAt(e)) :
                    /\ WriteOutSeq(e)[i].sink = AdmittedAt(e)[i].sink
                    /\ WriteOutSeq(e)[i].ctx.id = << e, i >>

\* an event written to s2, s1, s2, added in this order
C14_Witness ==
    \E e \in EventIds :
        /\ events[e].st = "closed"
        /\ Len(events[e].setAt.added) = 3
        /\ Len(WriteOutSeq(e)) = 3
        /\ WriteOutSeq(e)[1].sink = "s2"
        /\ WriteOutSeq(e)[2].sink = "s1"
        /\ WriteOutSeq(e)[3].sink = "s2"

\* the registrations of sink s among those that admit event e
AdmittedOf(e, s) == Len(SelectSeq(AdmittedAt(e), LAMBDA r : r.sink = s))

\* C15: the sinks that receive an event and the threshold it is checked against
\* are those of the registry when the severity method is called: setup calls
\* made since the Logger was created apply to it, setup calls made between the
\* severity call and the terminal call do not.
C15_RegistryReadAtSeverityCall ==
    \A e \in EventIds : \A s \in SinkIds :
        /\ Asked(e, s) = AdmittedOf(e, s)
        /\ events[e].ctxs.len = Len(AdmittedAt(e))
        /\ events[e].st = "closed" => Written(e, s) = AdmittedOf(e, s)

\* an event written to a sink that was added after its Logger was created and
\* removed, under a raised global minimum, before its terminal call
C15_Witness ==
    \E e \in EventIds : \E s \in SinkIds :
        /\ events[e].st = "closed"
        /\ Len(events[e].setAt.added) = 1
        /\ events[e].lvl < LevelPanic
        /\ lastSet.added = << >>
        /\ lastSet.level = LevelSilence
        /\ registeredSinks = << >>
        /\ Written(e, s) = 1

\* the sinks of a sequence of registrations
SinksOf(regs) == { regs[i].sink : i \in 1..Len(regs) }

\* C16: after ClearOutputs the registry is empty and LongestScopeNameLength is
\* 0, and events created afterwards reach none of the sinks registered before
\* it until AddOutput is called again.
C16_ClearedUntilAddedAgain ==
    /\ lastSet.added = << >> => registeredSinks = << >>
    /\ SinksOf(registeredSinks) = SinksOf(lastSet.added)
    /\ lastSet.scopedLen = 0 => LongestScopeNameLength = 0
    /\ \A e \in EventIds :
          \A s \in SinkIds \ SinksOf(events[e].setAt.added) :
              Asked(e, s) = 0 /\ Written(e, s) = 0

\* an event that passes the threshold, created after ClearOutputs removed a
\* sink that admitted its level, and terminated without reaching it
C16_Witness ==
    \E e \in EventIds :
        /\ events[e].st = "closed"
        /\ events[e].lvl >= ThresholdAt(e)
        /\ events[e].setAt.added = << >>
        /\ events[e].setAt.removedMin # NoLevel
        /\ events[e].setAt.removedMin <= events[e].lvl
        /\ SinkCalls(e) = 0
        /\ LongestScopeNameLength = 0

C18_ScopeNamesFoldCase ==
    /\ \A k1, k2 \in DOMAIN minScopedLevels : EqualFold(k1, k2) => k1 = k2
    /\ \A t \in ScopeNames :
          IF lastSet.scoped[t] = NoLevel
          THEN ToUpper(t) \notin DOMAIN minScopedLevels
          ELSE /\ ToUpper(t) \in DOMAIN minScopedLevels
               /\ minScopedLevels[ToUpper(t)] = lastSet.scoped[t]
    /\ \A e \in EventIds : \A t \in ScopeNames :
          (EqualFold(t, events[e].scope) /\ OverrideAt(e, t) # NoLevel) =>
              IF events[e].lvl < OverrideAt(e, t)
              THEN SinkCalls(e) = 0
              ELSE events[e].lvl >= GlobalAt(e) => events[e].ctxs.arr # 0

\* a Warn event of the Logger "DB" suppressed by the override Error, which is
\* set under the name "db" only, while a sink admits it
C18_Witness ==
    \E e \in EventIds :
        /\ events[e].scope = << "D", "B" >>
        /\ events[e].lvl = LevelWarn
        /\ GlobalAt(e) = LevelDebug
        /\ OverrideAt(e, << "D", "B" >>) = LevelError
        /\ events[e].regAt # << >>
        /\ events[e].ctxs.arr = 0

\* ---- the level a Context is written out with
\* C19 as stated: whatever public entry point made the event, every WriteOut a
\* Context has received carries a level of Debug..Panic.
C19_WriteOutLevelInRange ==
    \A j \in 1..Len(trace) :
        trace[j].op = "WriteOut" => trace[j].level \in EventLevels

\* ---- the caller of an event
\* the contexts of event e as they are now: the held ones while the chain is
\* open, the ones written out once it is terminated
ContextsOf(e) ==
    IF events[e].st = "open" THEN Held(e)
    ELSE [i \in 1..Len(WriteOutSeq(e)) |-> WriteOutSeq(e)[i].ctx]

\* the WithCaller calls made on the chain of event e
ManualCallers(e) == SelectSeq(events[e].withs, LAMBDA o : o.f = "SetCaller")

\* C20: when the walk of the stack finds the application frame, every context
\* an event holds has received SetCaller with that file and line as its first
\* call, by the time the severity method has returned, so before every field of
\* the chain and before WriteOut; when the walk finds nothing, the event still
\* gets its contexts and is written out, and its contexts receive no SetCaller
\* but those of the chain; after a WithCaller call on the chain every context
\* carries the file and line of the last such call.
C20_CallerAttachedFirst ==
    \A e \in EventIds :
        /\ Len(NewContextSeq(e)) = Len(AdmittedAt(e))
        /\ Len(ContextsOf(e)) = Len(NewContextSeq(e))
        /\ \A i \in 1..Len(ContextsOf(e)) :
              LET ctx == ContextsOf(e)[i]
              IN  /\ events[e].stack = "app" =>
                        /\ Len(ctx.ops) = 1 + Len(events[e].withs)
                        /\ ctx.ops[1] = SetCallerOp(<< "cmd", "/", "run", ".go" >>, 42)
                        /\ SubSeq(ctx.ops, 2, Len(ctx.ops)) = events[e].withs
                  /\ events[e].stack = "deep" => ctx.ops = events[e].withs
                  /\ CallerOf(ctx) =
                        IF ManualCallers(e) # << >>
                        THEN [file |-> ManualCallers(e)[Len(ManualCallers(e))].k,
                              line |-> ManualCallers(e)[Len(ManualCallers(e))].v[1]]
                        ELSE IF events[e].stack = "app"
                             THEN [file |-> << "cmd", "/", "run", ".go" >>, line |-> 42]
                             ELSE [file |-> << >>, line |-> 0]

\* an event made from application code, given a field and then a manual
\* caller, and written out to two sinks with the manual caller
C20_Witness ==
    \E e \in EventIds :
        /\ events[e].st = "closed"
        /\ events[e].stack = "app"
        /\ Len(events[e].withs) = 2
        /\ events[e].withs[1].f = "AppendString"
        /\ events[e].withs[2].f = "SetCaller"
        /\ Len(WriteOutSeq(e)) = 2
        /\ \A i \in 1..2 :
              CallerOf(WriteOutSeq(e)[i].ctx) = [file |-> << "manual", ".go" >>, line |-> 7]

\* ---- the caller found on a stack
\* path lies in the source tree under directory dir
InTree(path, dir) == HasPrefix(path, dir \o << "/" >>)

\* the frames the walk is described to stop at
Qualifies(path) ==
    \/ HasSuffix(path, << "_test.go" >>)
    \/ ~InTree(path, wharfCoreDir)
    \/ HasSuffix(path, << "/", "main.go" >>)

\* C21 as stated: CallerFileWithLineNum returns the file (with its directory)
\* and the line of the first frame, from depth 2 to depth 15, that exists and
\* whose path ends in "_test.go", lies outside the library's source tree or
\* ends in "/main.go"; it returns the empty file and line 0 when there is none.
C21_FirstQualifyingFrame ==
    lastCall.fn = "CallerFileWithLineNum" =>
        LET stack == lastCall.in
            q == { i \in 2..15 : i + 1 <= Len(stack) /\ Qualifies(stack[i + 1].path) }
        IN  IF q = {} THEN lastCall.out = [file |-> << >>, line |-> 0]
            ELSE LET i == CHOOSE i \in q : \A j \in q : i <= j
                 IN  lastCall.out = [file |-> fileAndLastDir(stack[i + 1].path),
                                     line |-> stack[i + 1].line]

\* ---- levels and their names
\* C22: ParseLevel(L.String()) is L with a nil error for each of Debug, Info,
\* Warn, Error and Panic, and is an error for Silence.
C22_StringRoundTrips ==
    lastCall.fn = "RoundTrip" =>
        LET lvl == lastCall.in[1]
        IN  /\ lvl \in EventLevels =>
                  lastCall.out.parsed = [level |-> lvl, err |-> FALSE]
            /\ lvl = LevelSilence => lastCall.out.parsed.err

\* the round trip of Silence, whose name is "Level(5)"
C22_Witness ==
    /\ lastCall.fn = "RoundTrip"
    /\ lastCall.in = << LevelSilence >>
    /\ lastCall.out.text = << "L", "e", "v", "e", "l", "(", "5", ")" >>
    /\ lastCall.out.parsed.err

\* the names of each level, as the documentation of ParseLevel lists them
NamesOf(lvl) ==
    CASE lvl = LevelDebug -> { << "d" >>, << "d", "e", "b", "u", "g" >>, << "d", "e", "b", "u", "g", "g", "i", "n", "g" >> }
      [] lvl = LevelInfo -> { << "i" >>, << "i", "n", "f", "o" >>, << "i", "n", "f", "o", "r", "m", "a", "t", "i", "o", "n" >> }
      [] lvl = LevelWarn -> { << "w" >>, << "w", "a", "r", "n" >>, << "w", "a", "r", "n", "i", "n", "g" >> }
      [] lvl = LevelError -> { << "e" >>, << "e", "r", "r", "o", "r" >> }
      [] lvl = LevelPanic -> { << "p" >>, << "p", "a", "n", "i", "c" >> }

\* text is a name of lvl, ignoring letter case
Names(text, lvl) == \E w \in NamesOf(lvl) : EqualFold(text, w)

\* text is a name of lvl between white space, ignoring letter case
NamesPadded(text, lvl) ==
    \E a \in 0..Len(text), b \in 0..Len(text) :
        /\ a + b <= Len(text)
        /\ \A i \in 1..a : IsSpace(text[i])
        /\ \A i \in (Len(text) - b + 1)..Len(text) : IsSpace(text[i])
        /\ Names(SubSeq(text, a + 1, Len(text) - b), lvl)

\* C23 as stated: ParseLevel returns a level and a nil error exactly when the
\* text equals one of the names, ignoring letter case.
C23_ExactNamesOnly ==
    lastCall.fn = "ParseLevel" =>
        (~lastCall.out.err <=> \E lvl \in EventLevels : Names(lastCall.in, lvl))

\* C23, amended: ParseLevel returns the level and a nil error exactly when the
\* text, with the white space around it removed, equals one of the names of
\* that level, ignoring letter case; on every other text it returns Debug and
\* an error.
C23_NamesBetweenSpaces ==
    lastCall.fn = "ParseLevel" =>
        /\ \A lvl \in EventLevels :
              NamesPadded(lastCall.in, lvl) =>
                  lastCall.out = [level |-> lvl, err |-> FALSE]
        /\ (~ \E lvl \in EventLevels : NamesPadded(lastCall.in, lvl)) =>
              lastCall.out = [level |-> LevelDebug, err |-> TRUE]

\* "Warning" between a tab and a line end is parsed as Warn
C23_Witness ==
    /\ lastCall.fn = "ParseLevel"
    /\ lastCall.in = << "\t", " " >> \o << "W", "a", "r", "n", "i", "n", "g" >> \o << "\n" >>
    /\ lastCall.out = [level |-> LevelWarn, err |-> FALSE]

\* ---- the writer of NewWriter
\* p without the line ends at its end
WithoutLineEnds(p) ==
    LET k == CHOOSE k \in 0..Len(p) :
                 /\ \A i \in (k + 1)..Len(p) : p[i] = "\n"
                 /\ k = 0 \/ p[k] # "\n"
    IN  SubSeq(p, 1, k)

\* the last Write made one event of the writer's level with the text of p, and
\* every admitting sink received it once
WriteSubmitted ==
    LET e == lastCall.in.eid
    IN  /\ e \in EventIds
        /\ events[e].lvl = lastCall.in.level
        /\ Len(NewContextSeq(e)) = Len(AdmittedAt(e))
        /\ Len(WriteOutSeq(e)) = Len(AdmittedAt(e))
        /\ \A i \in 1..Len(WriteOutSeq(e)) :
              /\ WriteOutSeq(e)[i].level = lastCall.in.level
              /\ WriteOutSeq(e)[i].msg = WithoutLineEnds(lastCall.in.p)

\* C24 as stated: every Write(p), at whatever level the writer was made with,
\* submits one event of that level with the text of p without its line ends
\* and returns (len(p), nil).
C24_WriteAlwaysReturns ==
    lastCall.fn = "Write" =>
        /\ WriteSubmitted
        /\ lastCall.out = [panic |-> FALSE, n |-> Len(lastCall.in.p), err |-> "nil"]

\* C24, amended: a Write(p) on a writer of level Debug..Error submits one event
\* of that level, with p without all its trailing line ends as message, and
\* returns (len(p), nil) whether or not a sink accepted it; on a writer of
\* level Panic it submits the event and then panics with the message instead
\* of returning, unless the threshold of the scope is above Panic; on a writer
\* of any other level it panics with "invalid log level" and reaches no sink.
C24_WriteSubmitsOneEvent ==
    lastCall.fn = "Write" =>
        LET e == lastCall.in.eid
            level == lastCall.in.level
            returned == [panic |-> FALSE, n |-> Len(lastCall.in.p), err |-> "nil"]
        IN  /\ level \in EventLevels \ {LevelPanic} =>
                  /\ WriteSubmitted
                  /\ lastCall.out = returned
                  /\ PanicsOf(e) = {}
            /\ level = LevelPanic =>
                  /\ WriteSubmitted
                  /\ IF LevelPanic >= ThresholdAt(e)
                     THEN /\ lastCall.out.panic
                          /\ Cardinality(PanicsOf(e)) = 1
                          /\ \A j \in PanicsOf(e) :
                                /\ trace[j].msg = WithoutLineEnds(lastCall.in.p)
                                /\ \A i \in WriteOutsOf(e) : i < j
                     ELSE /\ lastCall.out = returned
                          /\ PanicsOf(e) = {}
            /\ level \notin EventLevels =>
                  /\ lastCall.out.panic
                  /\ NewContextsOf(e) = {} /\ WriteOutsOf(e) = {}
                  /\ \A j \in PanicsOf(e) : trace[j].msg = << "invalid log level" >>
                  /\ Cardinality(PanicsOf(e)) = 1

\* a Write of "x" and two line ends on a writer of level Warn, received by a
\* sink as "x" and answered with (3, nil)
C24_Witness ==
    /\ lastCall.fn = "Write"
    /\ lastCall.in.level = LevelWarn
    /\ lastCall.in.p = << "x", "\n", "\n" >>
    /\ lastCall.out = [panic |-> FALSE, n |-> 3, err |-> "nil"]
    /\ Len(WriteOutSeq(lastCall.in.eid)) >= 1
    /\ \A i \in 1..Len(WriteOutSeq(lastCall.in.eid)) :
          WriteOutSeq(lastCall.in.eid)[i].msg = << "x" >>

\* ---- the records of the Mock
\* the entries of Mock.Logs made for event e
LogsOf(e) == { i \in 1..Len(mock.Logs) : mock.Logs[i].ctx.id[1] = e }

\* MockLog.Fields of entry i of Mock.Logs, as the map is now
FieldsOfLog(i) == mock.maps[mock.Logs[i].ctx.id]

\* the registrations of the Mock that admitted event e at its severity call
MockAdmitted(e) == SelectSeq(AdmittedAt(e), LAMBDA r : r.sink = MockSink)

\* the calls of the chain of e that appended a field with this key
Appended(e, key) == { n \in 1..Len(events[e].withs) : events[e].withs[n].k = key }

\* one MockLog per registration of the Mock that admitted e, none before the
\* terminal call, each with the level of e and its final message
OneLogPerDelivery(e) ==
    /\ events[e].st = "open" => LogsOf(e) = {}
    /\ events[e].st = "closed" =>
          /\ Cardinality(LogsOf(e)) = Len(MockAdmitted(e))
          /\ \A i \in LogsOf(e) :
                /\ mock.Logs[i].Level = events[e].lvl
                /\ mock.Logs[i].Message = FinalText(e)

MockConsistent ==
    /\ Len(mock.Logs) = Len(mock.LogMessages)
    /\ \A i \in 1..Len(mock.Logs) : mock.LogMessages[i] = mock.Logs[i].Message

\* a step keeps every entry there is, its Fields included, and adds one entry
\* for each WriteOut the Mock receives in it
MockOnlyGrows ==
    /\ Len(mock'.Logs) >= Len(mock.Logs)
    /\ Len(mock'.LogMessages) >= Len(mock.LogMessages)
    /\ \A i \in 1..Len(mock.Logs) :
          /\ mock'.Logs[i] = mock.Logs[i]
          /\ mock'.maps[mock.Logs[i].ctx.id] = mock.maps[mock.Logs[i].ctx.id]
    /\ \A i \in 1..Len(mock.LogMessages) : mock'.LogMessages[i] = mock.LogMessages[i]
    /\ Len(mock'.Logs) - Len(mock.Logs) =
          Cardinality({ j \in (Len(trace) + 1)..Len(trace') :
                          trace'[j].op = "WriteOut" /\ trace'[j].sink = MockSink })

\* C28 as stated: with one goroutine, Logs and LogMessages always have the
\* same length and the same messages, they grow by one entry for each event
\* delivered, and no step changes an entry that is already there.
C28_EntriesNeverChange == [][MockConsistent' /\ MockOnlyGrows]_vars

\* ---- events made by the Mock's own severity methods
\* C29: an event made by Mock.Debug ... Mock.Panic asks only the Mock for a
\* context and is written out only to the Mock, whatever sinks are registered;
\* the Mock records it exactly when its level is at least the global minimum
\* level and the override of the empty scope, as they were at the severity
\* call.
C29_MockEventsToMockOnly ==
    /\ \A j \in 1..Len(trace) :
          (trace[j].op \in {"NewContext", "WriteOut"} /\ events[trace[j].ev].via = "Mock")
              => trace[j].sink = MockSink
    /\ \A e \in EventIds :
          (events[e].via = "Mock" /\ events[e].from = 0) =>
              /\ Cardinality(NewContextsOf(e)) =
                    IF events[e].lvl >= ThresholdAt(e) THEN 1 ELSE 0
              /\ events[e].st = "closed" =>
                    Cardinality(WriteOutsOf(e)) =
                        IF events[e].lvl >= ThresholdAt(e) THEN 1 ELSE 0
    /\ Len(mock.Logs) = Cardinality({ j \in 1..Len(trace) :
                                        trace[j].op = "WriteOut" /\ trace[j].sink = MockSink })

\* an Error event of the Mock, with another sink registered at Debug and the
\* empty scope raised to Error: recorded by the Mock, and by it alone
C29_Witness ==
    \E e \in EventIds :
        /\ events[e].via = "Mock"
        /\ events[e].st = "closed"
        /\ events[e].lvl = LevelError
        /\ OverrideAt(e, << >>) = LevelError
        /\ \E i \in 1..Len(events[e].regAt) : events[e].regAt[i].sink = "s1"
        /\ Cardinality(WriteOutsOf(e)) = 1
        /\ Len(mock.Logs) = 1

\* ---- what the registry operations leave alone
\* a step that changes one part of the registry leaves the other parts alone
RegistryFrame ==
    LET cleared == \/ Len(registeredSinks') < Len(registeredSinks)
                   \/ LongestScopeNameLength' < LongestScopeNameLength
        levelSet == minGlobalLevel' # minGlobalLevel
        scopedSet == minScopedLevels' # minScopedLevels
        added == Len(registeredSinks') > Len(registeredSinks)
    IN  /\ cleared => UNCHANGED << minGlobalLevel, minScopedLevels >>
        /\ levelSet \/ scopedSet =>
              UNCHANGED << registeredSinks, LongestScopeNameLength >>
        /\ scopedSet =>
              /\ UNCHANGED minGlobalLevel
              /\ DOMAIN minScopedLevels \subseteq DOMAIN minScopedLevels'
              /\ \E key \in DOMAIN minScopedLevels' :
                    \A k \in DOMAIN minScopedLevels' \ {key} :
                        /\ k \in DOMAIN minScopedLevels
                        /\ minScopedLevels'[k] = minScopedLevels[k]
        /\ added =>
              /\ UNCHANGED << minGlobalLevel, minScopedLevels >>
              /\ Len(registeredSinks') = Len(registeredSinks) + 1
              /\ SubSeq(registeredSinks', 1, Len(registeredSinks)) = registeredSinks
        /\ events' # events => UNCHANGED registry

\* C30: ClearOutputs leaves the global minimum level and the overrides as they
\* are; SetLevel and SetLevelScoped leave the sinks and LongestScopeNameLength
\* as they are; SetLevelScoped leaves the global minimum and the overrides of
\* the other scopes; AddOutput leaves the levels and the registrations there
\* are; making and terminating events changes nothing of the registry.
C30_RegistryFrame == [][RegistryFrame]_vars

\* an override of scope G that is still there after ClearOutputs removed a
\* registered sink
C30_Witness ==
    /\ lastSet.removedMin # NoLevel
    /\ registeredSinks = << >>
    /\ << "G" >> \in DOMAIN minScopedLevels
    /\ minScopedLevels[<< "G" >>] = LevelWarn

\* ---- the GORM logger
\* the GORM level lets events of this kind through: it is asked only when
\* AlsoUseGORMLogLevel is set
GormAdmits(log, kind) == ~log.AlsoUseGORMLogLevel \/ log.level >= kind

\* the level of the event the priority rule asks for, NoLevel for none
TraceExpected(in) ==
    LET log == in.log
        wantError == /\ in.err # ErrNil
                     /\ ~(IsErrRecordNotFound(in.err) /\ log.IgnoreRecordNotFoundError)
                     /\ GormAdmits(log, GormError)
        wantWarn == /\ log.SlowThreshold # 0
                    /\ in.elapsed > log.SlowThreshold
                    /\ GormAdmits(log, GormWarn)
        wantDebug == log.level = GormInfo \/ ~log.AlsoUseGORMLogLevel
    IN  IF wantError THEN LevelError
        ELSE IF wantWarn THEN LevelWarn
        ELSE IF wantDebug THEN LevelDebug
        ELSE NoLevel

\* the events the call of Trace made, and what they wrote
TraceEvents == { e \in 1..Len(events) : events[e].term = "Trace" }
TraceWrites(e) == { i \in 1..Len(trace) : trace[i].op = "WriteOut" /\ trace[i].ev = e }

\* C26: a call of Trace makes at most one event, of the level the priority
\* rule gives: Error for an error that is not an ignored record-not-found when
\* errors are admitted, else Warn for a slow call when SlowThreshold is not 0
\* and warnings are admitted, else Debug at GORM level Info or without
\* AlsoUseGORMLogLevel; silenced with AlsoUseGORMLogLevel it makes none and
\* does not call the callback.
C26_TraceByPriority ==
    lastCall.fn = "Trace" =>
        LET in == lastCall.in
            out == lastCall.out
            want == TraceExpected(in)
        IN  /\ out.level = want
            /\ out.fc = IF want = NoLevel THEN 0 ELSE 1
            /\ in.log.AlsoUseGORMLogLevel /\ in.log.level = GormSilent =>
                  out.level = NoLevel /\ out.fc = 0
            /\ Len(events) = IF want = NoLevel THEN in.eid - 1 ELSE in.eid
            /\ Cardinality(TraceEvents) <= in.n
            /\ \A e \in TraceEvents \cap {in.eid} :
                  /\ events[e].lvl = want
                  /\ events[e].scope = ScopeGORM
                  /\ \A i \in TraceWrites(e) : trace[i].level = want
                  /\ Cardinality(TraceWrites(e)) <= Len(registeredSinks)

\* a slow call that fails with a record-not-found error the configuration
\* ignores: the Warn event reached a sink
C26_Witness ==
    /\ lastCall.fn = "Trace"
    /\ IsErrRecordNotFound(lastCall.in.err)
    /\ lastCall.in.log.IgnoreRecordNotFoundError
    /\ lastCall.in.log.AlsoUseGORMLogLevel
    /\ lastCall.out.level = LevelWarn
    /\ \E i \in TraceWrites(lastCall.in.eid) : trace[i].level = LevelWarn

\* ---- the caller segment of the pretty-console sink
\* a call of WriteOut with a caller to write and a CallerMaxLength set
PrettyTrimmed ==
    /\ lastCall.fn = "WriteOut"
    /\ lastCall.in.conf.CallerMaxLength >= 1
    /\ lastCall.in.file # << >>
    /\ ~lastCall.in.conf.DisableCaller

\* what is left of CallerMaxLength for the file name
PrettyFileWidth ==
    IF lastCall.in.conf.DisableCallerLine THEN lastCall.in.conf.CallerMaxLength
    ELSE lastCall.in.conf.CallerMaxLength - 1 - Len(FormatInt(lastCall.in.line))

\* the number of characters of the Ellipsis in use
PrettyEllipsisLen ==
    IF lastCall.in.conf.Ellipsis = << >> THEN 1 ELSE Len(lastCall.in.conf.Ellipsis)

\* C27: with CallerMaxLength at 1 or higher WriteOut completes for every
\* caller file and line, and the caller segment (trimmed file name, ':' and
\* line) is never wider than CallerMaxLength.
C27_CallerWithinMaxLength ==
    PrettyTrimmed =>
        /\ ~lastCall.out.panic
        /\ Len(lastCall.out.caller) <= lastCall.in.conf.CallerMaxLength

\* where the file name fits or the Ellipsis fits in what the line leaves, the
\* call completes and the segment is within CallerMaxLength
PrettyWithinWhenEllipsisFits ==
    PrettyTrimmed =>
        /\ lastCall.out.panic <=>
              /\ Len(lastCall.in.file) > PrettyFileWidth
              /\ PrettyFileWidth < PrettyEllipsisLen
        /\ ~lastCall.out.panic =>
              Len(lastCall.out.caller) <= lastCall.in.conf.CallerMaxLength

====
